---- MODULE Spec2Model ----
(***************************************************************************)
(* jdsp: the ADAA nonlinear processor with its crossfade state machine,   *)
(* its engines and their function triples (adaa_nl/src/adaa.rs), the       *)
(* linear envelope (envelope/src/lib.rs), the delay buffers, their         *)
(* constructors and the block convolvers TiledConv and CircularConvBuffer  *)
(* (circular_buffer/src/circular_buffer.rs), the half-band oversample      *)
(* stage in both roles (oversampler/src/oversample/oversample_stage.rs)    *)
(* and the Oversample that owns the stages (oversampler/src/oversample.rs).*)
(*                                                                         *)
(* f32 values of the envelope are modelled bit-exactly (sign, 24-bit       *)
(* mantissa, exponent; round to nearest, ties to even).  f64 values of the *)
(* ADAA recurrence are modelled in fixed point, Scale units to 1.0, fine   *)
(* enough to tell a step below ERR_TOL from one above it; the nonlinear    *)
(* functions are evaluated at Coarse units to 1.0.                         *)
(***************************************************************************)
EXTENDS Integers, Sequences, FiniteSets, TLC

VARIABLES
    state,      \* NonlinearProcessor.state : ProcessorState
    proc,       \* NonlinearProcessor.proc : ADAA
    fade_out,   \* NonlinearProcessor.fade_out : Option<LinearEnvelope>
    fade_in,    \* NonlinearProcessor.fade_in : Option<LinearEnvelope>
    out,        \* the value returned by the last process call
    last,       \* history: the last call made on the processor
    calls,      \* history: process calls made since new(), saturating
    reqPhase,   \* history: what was running when the pending fade-out was requested
    ref,        \* history: engines from zero history fed the processor's samples
    circ,       \* a CircularDelayBuffer
    sized,      \* a SizedDelayBuffer<MAX_DELAY_LEN>
    dIn,        \* history: every sample passed to delay so far, in order
    dOutCirc,   \* history: every sample the CircularDelayBuffer returned
    dOutSized,  \* history: every sample the SizedDelayBuffer returned
    dCalls,     \* history: delay calls made so far
    stage,      \* an OversampleStage in the up-sample role
    upIn,       \* history: every sample passed to process_up so far
    upOut,      \* history: stage.data after each process_up, concatenated
    tiled,      \* a TiledConv
    convKernel, \* the kernel passed to every TiledConv::convolve call
    convIn,     \* history: every sample passed to convolve so far
    convOut,    \* history: every sample convolve wrote to its output
    engine,     \* an ADAA engine on its own
    engineLast, \* history: the last call made on the engine and what it gave
    oversample, \* an Oversample
    osOutput,   \* the caller's output block as the last process_up left it
    osLast,    \* history: the last call made on the Oversample
    built,      \* what a constructor was asked for and what it gave
    builtUse,  \* history: the last call made on what was built
    fnArg,      \* a style and an argument of its three functions
    fnVal,     \* the three functions at fnArg.x, once evaluated
    envelope,   \* a LinearEnvelope on its own
    envLast,    \* history: the consume calls made on env and the last gain returned
    downStage,  \* an OversampleStage in the down-sample role
    downIn,     \* history: every sample passed to process_down so far
    downOut,    \* history: downStage.data after each process_down, concatenated
    convBuf,    \* a CircularConvBuffer
    circWhole,  \* history: the last k_size samples of the whole blocks passed to convolve
    circLast    \* history: the last convolve call, its input as passed and as left

nlpVars == <<state, proc, fade_out, fade_in, out, last, calls, reqPhase, ref>>
dlyVars == <<circ, sized, dIn, dOutCirc, dOutSized, dCalls>>
stgVars == <<stage, upIn, upOut>>
cnvVars == <<tiled, convKernel, convIn, convOut>>
engVars == <<engine, engineLast>>
ovsVars == <<oversample, osOutput, osLast>>
bldVars == <<built, builtUse>>
fnVars == <<fnArg, fnVal>>
envVars == <<envelope, envLast>>
dwnVars == <<downStage, downIn, downOut>>
ccbVars == <<convBuf, circWhole, circLast>>
vars == <<nlpVars, dlyVars, stgVars, cnvVars, engVars, ovsVars, bldVars, fnVars, envVars, dwnVars, ccbVars>>

\* what each component's operations leave alone
exceptNlp == <<dlyVars, stgVars, cnvVars, engVars, ovsVars, bldVars, fnVars, envVars, dwnVars, ccbVars>>
exceptDelay == <<nlpVars, stgVars, cnvVars, engVars, ovsVars, bldVars, fnVars, envVars, dwnVars, ccbVars>>
exceptStage == <<nlpVars, dlyVars, cnvVars, engVars, ovsVars, bldVars, fnVars, envVars, dwnVars, ccbVars>>
exceptConv == <<nlpVars, dlyVars, stgVars, engVars, ovsVars, bldVars, fnVars, envVars, dwnVars, ccbVars>>
exceptEngine == <<nlpVars, dlyVars, stgVars, cnvVars, ovsVars, bldVars, fnVars, envVars, dwnVars, ccbVars>>
exceptOversample == <<nlpVars, dlyVars, stgVars, cnvVars, engVars, bldVars, fnVars, envVars, dwnVars, ccbVars>>
exceptBuild == <<nlpVars, dlyVars, stgVars, cnvVars, engVars, ovsVars, fnVars, envVars, dwnVars, ccbVars>>
exceptFn == <<nlpVars, dlyVars, stgVars, cnvVars, engVars, ovsVars, bldVars, envVars, dwnVars, ccbVars>>
exceptEnv == <<nlpVars, dlyVars, stgVars, cnvVars, engVars, ovsVars, bldVars, fnVars, dwnVars, ccbVars>>
exceptDown == <<nlpVars, dlyVars, stgVars, cnvVars, engVars, ovsVars, bldVars, fnVars, envVars, ccbVars>>
exceptCirc == <<nlpVars, dlyVars, stgVars, cnvVars, engVars, ovsVars, bldVars, fnVars, envVars, dwnVars>>

(***************************************************************************)
(* Bounds of the model.                                                    *)
(***************************************************************************)
\* compare_and_change_state is called within ReqWindow process calls after
\* new(), or within ReqWindow process calls after the FADE_LEN-th
ReqWindow == 1

(***************************************************************************)
(* IEEE-754 binary32, finite normal values:  s * m * 2^e  with             *)
(* 2^23 <= m < 2^24, or m = 0 for zero.                                     *)
(***************************************************************************)
RECURSIVE Pow2Rec(_)
Pow2Rec(n) == IF n = 0 THEN 1 ELSE 2 * Pow2Rec(n - 1)

Pow2Tab == [n \in 0..30 |-> Pow2Rec(n)]

Pow2(n) == Pow2Tab[n]

\* the number of bits of n >= 0
BitLen(n) == IF n = 0 THEN 0 ELSE CHOOSE p \in 1..31 : Pow2Tab[p - 1] <= n /\ (p = 31 \/ n < Pow2Tab[p])

MantBits == 24

F32Zero == [s |-> 1, m |-> 0, e |-> 0]

F32One == [s |-> 1, m |-> Pow2(MantBits - 1), e |-> 1 - MantBits]

F32Neg(a) == IF a.m = 0 THEN a ELSE [a EXCEPT !.s = -a.s]

\* `steps as f32` for 0 <= n < 2^24: exact
F32FromInt(n) ==
    IF n = 0 THEN F32Zero
    ELSE LET p == BitLen(n)
         IN  [s |-> 1, m |-> n * Pow2(MantBits - p), e |-> p - MantBits]

\* q with k bits dropped (remainder r, sticky st), rounded to nearest even
F32Round(s, q, r, half, st, e) ==
    LET up == r > half \/ (r = half /\ (st \/ q % 2 = 1))
        q1 == IF up THEN q + 1 ELSE q
    IN  IF q1 = Pow2(MantBits)
        THEN [s |-> s, m |-> Pow2(MantBits - 1), e |-> e + 1]
        ELSE [s |-> s, m |-> q1, e |-> e]

\* a + b for |a| >= |b| > 0, with two guard bits and a sticky bit
F32AddOrdered(a, b) ==
    LET d  == a.e - b.e
        A  == a.m * 4
        B  == (b.m * 4) \div Pow2(d)
        st == (b.m * 4) % Pow2(d) # 0
        S  == IF a.s = b.s THEN A + B ELSE A - B - (IF st THEN 1 ELSE 0)
        p  == BitLen(S)
        k  == p - MantBits
    IN  IF S = 0 THEN F32Zero
        ELSE IF k <= 0
        THEN [s |-> a.s, m |-> S * Pow2(-k), e |-> a.e - 2 + k]
        ELSE F32Round(a.s, S \div Pow2(k), S % Pow2(k), Pow2(k - 1), st, a.e - 2 + k)

\* f32 addition (the += of LinearEnvelope::consume)
F32Add(a, b) ==
    IF a.m = 0 THEN b
    ELSE IF b.m = 0 THEN a
    ELSE LET aBig == a.e > b.e \/ (a.e = b.e /\ a.m >= b.m)
             x == IF aBig THEN a ELSE b
             y == IF aBig THEN b ELSE a
         IN  IF x.e - y.e >= MantBits + 2 THEN x ELSE F32AddOrdered(x, y)

\* long division: quotient q (below 2^24), remainder r, exponent e
RECURSIVE F32DivStep(_, _, _, _, _)
F32DivStep(s, q, r, den, e) ==
    IF q >= Pow2(MantBits - 1)
    THEN F32Round(s, q, 2 * r, den, FALSE, e)
    ELSE LET r2 == 2 * r
         IN  IF r2 >= den
             THEN F32DivStep(s, 2 * q + 1, r2 - den, den, e - 1)
             ELSE F32DivStep(s, 2 * q, r2, den, e - 1)

\* f32 division a / b, b # 0
F32Div(a, b) ==
    IF a.m = 0 THEN F32Zero
    ELSE F32DivStep(a.s * b.s, a.m \div b.m, a.m % b.m, b.m, a.e - b.e)


(***************************************************************************)
(* envelope/src/lib.rs: LinearEnvelope                                     *)
(***************************************************************************)
None == <<>>
Some(x) == <<x>>

\* LinearEnvelope::fade_in(steps)
FadeInEnv(steps) ==
    [current_value |-> F32Zero, target_value |-> F32One, num_steps |-> steps,
     step_size |-> F32Div(F32One, F32FromInt(steps))]

\* LinearEnvelope::fade_out(steps)
FadeOutEnv(steps) ==
    [current_value |-> F32One, target_value |-> F32Zero, num_steps |-> steps,
     step_size |-> F32Div(F32Neg(F32One), F32FromInt(steps))]

\* Env::consume: the envelope after the call and the gain returned
Consume(env) ==
    IF env.num_steps > 0
    THEN LET v == F32Add(env.current_value, env.step_size)
         IN  [env  |-> [env EXCEPT !.current_value = v, !.num_steps = env.num_steps - 1],
              gain |-> v]
    ELSE [env |-> env, gain |-> env.target_value]

\* a target test that looks at the step counter instead of the value
TargetReached_StepsDone(env) == env.num_steps = 0

\* Env::target_reached
TargetReached(env) == env.current_value = env.target_value

(***************************************************************************)
(* adaa_nl/src/adaa.rs: the functions.  An f64 x is the integer x * Scale, *)
(* fine enough to hold steps below ERR_TOL.  The nonlinearities and their  *)
(* antiderivatives are evaluated to 1 / Coarse, so quotients of small      *)
(* differences of their values are not accurate; which branch a recurrence *)
(* takes depends on its inputs only.                                       *)
(***************************************************************************)
\* ERR_TOL = 1e-5 is 1 / TolInverse
TolInverse == 100000

Coarse == 12 * 100
Ratio == 2 * 100
Scale == Ratio * Coarse

\* the largest value the model holds; a quotient beyond it is held at it
ValMax == 10 * Scale

AbsV(x) == IF x < 0 THEN -x ELSE x
SignV(x) == IF x < 0 THEN -1 ELSE 1
MaxV(a, b) == IF a >= b THEN a ELSE b

\* a * b and a / b inside the functions, on values in units of 1 / Coarse
FMul(a, b) == (a * b) \div Coarse
CoarseDiv(a, b) == IF b < 0 THEN ((-a) * Coarse) \div (-b) ELSE (a * Coarse) \div b

\* the argument of a function, in units of 1 / Coarse
ToCoarse(x) == x \div Ratio

\* a / b of two f64 values, b > 0: a * Scale / b with the product taken in
\* two steps, p = a * Ratio, q = p div b, r = p mod b
FDivParts(q, r, b) ==
    IF q >= ValMax \div Coarse THEN ValMax
    ELSE IF q < -(ValMax \div Coarse) THEN -ValMax
    ELSE q * Coarse + (r * Coarse) \div b

FDivBy(p, b) == FDivParts(p \div b, p % b, b)

\* a / 0.0 does not trap: it is an infinity or NaN, held at the bound
FDiv(a, b) ==
    IF b = 0 THEN (IF a < 0 THEN -ValMax ELSE ValMax)
    ELSE IF b < 0 THEN FDivBy((-a) * Ratio, -b)
    ELSE FDivBy(a * Ratio, b)

\* a tolerance test for exact equality
BelowTol_Zero(d) == d = 0

\* |d| < ERR_TOL, that is |d| * TolInverse < Scale
BelowTol(d) == AbsV(d) < (Scale + TolInverse - 1) \div TolInverse

\* tanh, ln cosh, the second antiderivative of tanh and ln at the integers
TanhTab == [k \in -3..3 |-> SignV(k) * <<0, 914, 1157, 1194>>[AbsV(k) + 1]]
LnCoshTab == [k \in -3..3 |-> <<0, 521, 1590, 2771>>[AbsV(k) + 1]]
TanhAd2Tab == [k \in -3..3 |-> SignV(k) * <<0, 183, 1219, 3397>>[AbsV(k) + 1]]
LnTab == [k \in 1..4 |-> <<0, 832, 1318, 1664>>[k]]

\* a tabulated function at c / Coarse, linear between the table's points
Interp(tab, c) ==
    LET k == c \div Coarse
        f == c % Coarse
    IN  IF f = 0 THEN tab[k] ELSE tab[k] + ((tab[k + 1] - tab[k]) * f) \div Coarse

SOFT_CLIP_X2(x) ==
    LET c == ToCoarse(x)
    IN  Ratio * (IF c >= 0
                 THEN Coarse - CoarseDiv(Coarse, FMul(c + Coarse, c + Coarse))
                 ELSE CoarseDiv(Coarse, FMul(Coarse - c, Coarse - c)) - Coarse)

SOFT_CLIP_X2_AD1(x) ==
    LET c == ToCoarse(x)
    IN  Ratio * (IF c >= 0 THEN CoarseDiv(Coarse, c + Coarse) + c
                 ELSE CoarseDiv(Coarse, Coarse - c) - c)

SOFT_CLIP_X2_AD2(x) ==
    LET c == ToCoarse(x)
    IN  Ratio * (IF c >= 0 THEN Interp(LnTab, c + Coarse) + FMul(c, c) \div 2
                 ELSE -Interp(LnTab, Coarse - c) - FMul(c, c) \div 2)

TANH(x) == Ratio * Interp(TanhTab, ToCoarse(x))
TANH_AD1(x) == Ratio * Interp(LnCoshTab, ToCoarse(x))
TANH_AD2(x) == Ratio * Interp(TanhAd2Tab, ToCoarse(x))

HARD_CLIP(x) == IF x < -Scale THEN -Scale ELSE IF x > Scale THEN Scale ELSE x

HARD_CLIP_AD1(val) ==
    LET c    == ToCoarse(val)
        clip == MaxV(AbsV(c) - Coarse, 0)
    IN  Ratio * ((FMul(c, c) - FMul(clip, clip)) \div 2)

\* a second antiderivative without the constant that joins the two pieces
HARD_CLIP_AD2_NoOffset(val) ==
    LET c             == ToCoarse(val)
        within_range  == FMul(FMul(c, c), c) \div 6
        outside_range == (FMul(c, c) \div 2) * SignV(c) - c \div 2
    IN  Ratio * (IF AbsV(c) <= Coarse THEN within_range ELSE outside_range)

HARD_CLIP_AD2(val) ==
    LET c             == ToCoarse(val)
        within_range  == FMul(FMul(c, c), c) \div 6
        outside_range == (FMul(c, c) \div 2 + Coarse \div 6) * SignV(c) - c \div 2
    IN  Ratio * (IF AbsV(c) <= Coarse THEN within_range ELSE outside_range)

\* the call through a function pointer H, H1 or H2
Call(fn, x) ==
    CASE fn = "HARD_CLIP"        -> HARD_CLIP(x)
      [] fn = "HARD_CLIP_AD1"    -> HARD_CLIP_AD1(x)
      [] fn = "HARD_CLIP_AD2"    -> HARD_CLIP_AD2(x)
      [] fn = "TANH"             -> TANH(x)
      [] fn = "TANH_AD1"         -> TANH_AD1(x)
      [] fn = "TANH_AD2"         -> TANH_AD2(x)
      [] fn = "SOFT_CLIP_X2"     -> SOFT_CLIP_X2(x)
      [] fn = "SOFT_CLIP_X2_AD1" -> SOFT_CLIP_X2_AD1(x)
      [] fn = "SOFT_CLIP_X2_AD2" -> SOFT_CLIP_X2_AD2(x)

ProcessorStyle == {"HardClip", "Tanh", "SoftClipX2"}
AntiderivativeOrder == {"FirstOrder", "SecondOrder"}

\* ProcessorState::State(style, order)
State(style, order) == [style |-> style, order |-> order]
ProcessorState == {State(s, o) : s \in ProcessorStyle, o \in AntiderivativeOrder}

tanh_proc_state ==
    [x1 |-> 0, x2 |-> 0, d2 |-> 0, ad1_x1 |-> 0, ad2_x0 |-> 0, ad2_x1 |-> 0,
     nl_func |-> "TANH", nl_func_ad1 |-> "TANH_AD1", nl_func_ad2 |-> "TANH_AD2"]

hard_clip_proc_state ==
    [x1 |-> 0, x2 |-> 0, d2 |-> 0, ad1_x1 |-> 0, ad2_x0 |-> 0, ad2_x1 |-> 0,
     nl_func |-> "HARD_CLIP", nl_func_ad1 |-> "HARD_CLIP_AD1",
     nl_func_ad2 |-> "HARD_CLIP_AD2"]

soft_clip_x2_proc_state ==
    [x1 |-> 0, x2 |-> 0, d2 |-> -Scale, ad1_x1 |-> 0, ad2_x0 |-> 0, ad2_x1 |-> 0,
     nl_func |-> "SOFT_CLIP_X2", nl_func_ad1 |-> "SOFT_CLIP_X2_AD1",
     nl_func_ad2 |-> "SOFT_CLIP_X2_AD2"]

\* ADAA::from_nl_state
from_nl_state(nl_state) ==
    [current_proc_state |->
        CASE nl_state.style = "Tanh"       -> tanh_proc_state
          [] nl_state.style = "HardClip"   -> hard_clip_proc_state
          [] nl_state.style = "SoftClipX2" -> soft_clip_x2_proc_state,
     proc_alg |->
        CASE nl_state.order = "FirstOrder"  -> "PROCESS_FIRST_ORDER"
          [] nl_state.order = "SecondOrder" -> "PROCESS_SECOND_ORDER"]

\* a value computed without a division, and a quotient with its denominator
NoDiv(v) == [v |-> v, divs |-> <<>>]
Div(a, b) == [v |-> FDiv(a, b), divs |-> <<b>>]

\* ADAA::process_first_order: the ProcState after the call, the result and
\* the denominators of the divisions the call executed
process_first_order(st, val) ==
    LET diff   == val - st.x1
        ad1_x0 == Call(st.nl_func_ad1, val)
        result == IF BelowTol(diff)
                  THEN NoDiv(Call(st.nl_func, (val + st.x1) \div 2))
                  ELSE Div(ad1_x0 - st.ad1_x1, diff)
    IN  [state  |-> [st EXCEPT !.x1 = val, !.ad1_x1 = ad1_x0],
         result |-> result.v,
         divs   |-> result.divs]

\* (2.0 / delta) * (F1(xbar) + (ad2_x1 - F2(xbar)) / delta), as
\* 2 (F1(xbar) + inner) / delta: 2.0 / delta alone is beyond ValMax
second_order_close(st, xbar, delta, inner) ==
    [v    |-> FDiv(2 * (Call(st.nl_func_ad1, xbar) + inner.v), delta),
     divs |-> inner.divs \o <<delta>>]

\* process_second_order that does not store d1 in d2
process_second_order_KeepD2(st, val) ==
    LET ad2_x0 == Call(st.nl_func_ad2, val)
        d1     == IF BelowTol(val - st.x1)
                  THEN NoDiv(Call(st.nl_func_ad1, (val + st.x1) \div 2))
                  ELSE Div(ad2_x0 - st.ad2_x1, val - st.x1)
        xbar   == (val + st.x2) \div 2
        delta  == xbar - st.x1
        result == IF BelowTol(val - st.x2)
                  THEN IF BelowTol(delta)
                       THEN NoDiv(Call(st.nl_func, (xbar + st.x1) \div 2))
                       ELSE second_order_close(st, xbar, delta,
                                Div(st.ad2_x1 - Call(st.nl_func_ad2, xbar), delta))
                  ELSE Div(2 * (d1.v - st.d2), val - st.x2)
    IN  [state  |-> [st EXCEPT !.ad2_x0 = ad2_x0, !.x2 = st.x1,
                               !.x1 = val, !.ad2_x1 = ad2_x0],
         result |-> result.v,
         divs   |-> d1.divs \o result.divs]

\* process_second_order whose result tests val - x1 and divides by val - x2
process_second_order_GuardOnX1(st, val) ==
    LET ad2_x0 == Call(st.nl_func_ad2, val)
        d1     == IF BelowTol(val - st.x1)
                  THEN NoDiv(Call(st.nl_func_ad1, (val + st.x1) \div 2))
                  ELSE Div(ad2_x0 - st.ad2_x1, val - st.x1)
        xbar   == (val + st.x2) \div 2
        delta  == xbar - st.x1
        result == IF BelowTol(val - st.x1)
                  THEN IF BelowTol(delta)
                       THEN NoDiv(Call(st.nl_func, (xbar + st.x1) \div 2))
                       ELSE second_order_close(st, xbar, delta,
                                Div(st.ad2_x1 - Call(st.nl_func_ad2, xbar), delta))
                  ELSE Div(2 * (d1.v - st.d2), val - st.x2)
    IN  [state  |-> [st EXCEPT !.ad2_x0 = ad2_x0, !.d2 = d1.v, !.x2 = st.x1,
                               !.x1 = val, !.ad2_x1 = ad2_x0],
         result |-> result.v,
         divs   |-> d1.divs \o result.divs]

\* ADAA::process_second_order; (2.0 / (val - x2)) * (d1 - d2) as
\* 2 (d1 - d2) / (val - x2)
process_second_order(st, val) ==
    LET ad2_x0 == Call(st.nl_func_ad2, val)
        d1     == IF BelowTol(val - st.x1)
                  THEN NoDiv(Call(st.nl_func_ad1, (val + st.x1) \div 2))
                  ELSE Div(ad2_x0 - st.ad2_x1, val - st.x1)
        xbar   == (val + st.x2) \div 2
        delta  == xbar - st.x1
        result == IF BelowTol(val - st.x2)
                  THEN IF BelowTol(delta)
                       THEN NoDiv(Call(st.nl_func, (xbar + st.x1) \div 2))
                       ELSE second_order_close(st, xbar, delta,
                                Div(st.ad2_x1 - Call(st.nl_func_ad2, xbar), delta))
                  ELSE Div(2 * (d1.v - st.d2), val - st.x2)
    IN  [state  |-> [st EXCEPT !.ad2_x0 = ad2_x0, !.d2 = d1.v, !.x2 = st.x1,
                               !.x1 = val, !.ad2_x1 = ad2_x0],
         result |-> result.v,
         divs   |-> d1.divs \o result.divs]

\* ADAA::process: the call through proc_alg
adaa_process(adaa, val) ==
    LET r == IF adaa.proc_alg = "PROCESS_FIRST_ORDER"
             THEN process_first_order(adaa.current_proc_state, val)
             ELSE process_second_order(adaa.current_proc_state, val)
    IN  [adaa   |-> [adaa EXCEPT !.current_proc_state = r.state],
         result |-> r.result,
         divs   |-> r.divs]


(***************************************************************************)
(* adaa_nl/src/adaa.rs: NonlinearProcessor                                 *)
(***************************************************************************)
FADE_LEN == 5000

\* NonlinearProcessor::new
NewProcessor ==
    [state    |-> State("HardClip", "FirstOrder"),
     proc     |-> from_nl_state(State("HardClip", "FirstOrder")),
     fade_out |-> None,
     fade_in  |-> Some(FadeInEnv(FADE_LEN))]

\* NonlinearProcessor::change_state
change_state(p) == [p EXCEPT !.proc = from_nl_state(p.state)]

\* a request handler that does not compare the requested state with the current one
compare_and_change_state_Unconditional(p, other_state) ==
    [p EXCEPT !.state = other_state, !.fade_out = Some(FadeOutEnv(FADE_LEN))]

\* a request handler that rebuilds the engine at once instead of leaving it to process
compare_and_change_state_Eager(p, other_state) ==
    IF p.state.style # other_state.style \/ p.state.order # other_state.order
    THEN [p EXCEPT !.state = other_state, !.proc = from_nl_state(other_state),
                   !.fade_out = Some(FadeOutEnv(FADE_LEN))]
    ELSE p

\* a request handler that records the requested state and starts no fade-out
compare_and_change_state_NoFade(p, other_state) ==
    [p EXCEPT !.state = other_state]

\* NonlinearProcessor::compare_and_change_state
compare_and_change_state(p, other_state) ==
    IF p.state.style # other_state.style \/ p.state.order # other_state.order
    THEN [p EXCEPT !.state = other_state, !.fade_out = Some(FadeOutEnv(FADE_LEN))]
    ELSE p

\* NonlinearProcessor::process: the processor after the call, and the value
\* returned: the engine's result and the gains it was multiplied by, in order
nlp_process(p, val) ==
    LET \* if let Some(env) = &mut self.fade_out { .. }, env.consume() being c
        FadeOutBlock(p1, c) ==
            IF p1.fade_out = None THEN [nlp |-> p1, gains |-> <<>>]
            ELSE [nlp   |-> IF TargetReached(c.env)
                            THEN [change_state(p1) EXCEPT
                                     !.fade_in = Some(FadeInEnv(FADE_LEN)),
                                     !.fade_out = None]
                            ELSE [p1 EXCEPT !.fade_out = Some(c.env)],
                  gains |-> <<c.gain>>]
        \* if let Some(env) = &mut self.fade_in { .. }, env.consume() being c
        FadeInBlock(p2, c) ==
            IF p2.fade_in = None THEN [nlp |-> p2, gains |-> <<>>]
            ELSE [nlp   |-> IF TargetReached(c.env)
                            THEN [p2 EXCEPT !.fade_in = None]
                            ELSE [p2 EXCEPT !.fade_in = Some(c.env)],
                  gains |-> <<c.gain>>]
        Result(raw, fo, fi) ==
            [nlp |-> fi.nlp, result |-> [raw |-> raw, gains |-> fo.gains \o fi.gains]]
        AfterFadeOut(raw, fo) ==
            Result(raw, fo, FadeInBlock(fo.nlp, Consume(fo.nlp.fade_in[1])))
        AfterEngine(r) ==
            AfterFadeOut(r.result,
                         FadeOutBlock([p EXCEPT !.proc = r.adaa], Consume(p.fade_out[1])))
    IN  AfterEngine(adaa_process(p.proc, val))

(***************************************************************************)
(* The processor as a state machine: new(), then process and               *)
(* compare_and_change_state calls in any order.                            *)
(***************************************************************************)
\* the samples passed to process
Samples == {Scale}

Nlp == [state |-> state, proc |-> proc, fade_out |-> fade_out, fade_in |-> fade_in]

\* an envelope that still has steps to run
Running(opt) == opt # None /\ opt[1].num_steps > 0

CallsCap == FADE_LEN + ReqWindow + 1

\* a component that is not in use
IdleNlp ==
    /\ state = None /\ proc = None /\ fade_out = None /\ fade_in = None
    /\ out = None /\ last = None /\ calls = 0 /\ reqPhase = "none" /\ ref = None

IdleDelay ==
    /\ circ = None /\ sized = None
    /\ dIn = <<>> /\ dOutCirc = <<>> /\ dOutSized = <<>> /\ dCalls = 0

IdleStage == stage = None /\ upIn = <<>> /\ upOut = <<>>

IdleConv == tiled = None /\ convKernel = None /\ convIn = <<>> /\ convOut = <<>>

IdleEngine == engine = None /\ engineLast = None

IdleOversample == oversample = None /\ osOutput = <<>> /\ osLast = None

IdleBuild == built = None /\ builtUse = None

IdleFn == fnArg = None /\ fnVal = None

IdleEnv == envelope = None /\ envLast = None

IdleDown == downStage = None /\ downIn = <<>> /\ downOut = <<>>

IdleCirc == convBuf = None /\ circWhole = <<>> /\ circLast = None

IdleExceptNlp == IdleDelay /\ IdleStage /\ IdleConv /\ IdleEngine /\ IdleOversample /\ IdleBuild /\ IdleFn /\ IdleEnv /\ IdleDown /\ IdleCirc
IdleExceptDelay == IdleNlp /\ IdleStage /\ IdleConv /\ IdleEngine /\ IdleOversample /\ IdleBuild /\ IdleFn /\ IdleEnv /\ IdleDown /\ IdleCirc
IdleExceptStage == IdleNlp /\ IdleDelay /\ IdleConv /\ IdleEngine /\ IdleOversample /\ IdleBuild /\ IdleFn /\ IdleEnv /\ IdleDown /\ IdleCirc
IdleExceptConv == IdleNlp /\ IdleDelay /\ IdleStage /\ IdleEngine /\ IdleOversample /\ IdleBuild /\ IdleFn /\ IdleEnv /\ IdleDown /\ IdleCirc
IdleExceptEngine == IdleNlp /\ IdleDelay /\ IdleStage /\ IdleConv /\ IdleOversample /\ IdleBuild /\ IdleFn /\ IdleEnv /\ IdleDown /\ IdleCirc
IdleExceptOversample == IdleNlp /\ IdleDelay /\ IdleStage /\ IdleConv /\ IdleEngine /\ IdleBuild /\ IdleFn /\ IdleEnv /\ IdleDown /\ IdleCirc
IdleExceptBuild == IdleNlp /\ IdleDelay /\ IdleStage /\ IdleConv /\ IdleEngine /\ IdleOversample /\ IdleFn /\ IdleEnv /\ IdleDown /\ IdleCirc
IdleExceptFn == IdleNlp /\ IdleDelay /\ IdleStage /\ IdleConv /\ IdleEngine /\ IdleOversample /\ IdleBuild /\ IdleEnv /\ IdleDown /\ IdleCirc
IdleExceptEnv == IdleNlp /\ IdleDelay /\ IdleStage /\ IdleConv /\ IdleEngine /\ IdleOversample /\ IdleBuild /\ IdleFn /\ IdleDown /\ IdleCirc
IdleExceptDown == IdleNlp /\ IdleDelay /\ IdleStage /\ IdleConv /\ IdleEngine /\ IdleOversample /\ IdleBuild /\ IdleFn /\ IdleEnv /\ IdleCirc
IdleExceptCirc == IdleNlp /\ IdleDelay /\ IdleStage /\ IdleConv /\ IdleEngine /\ IdleOversample /\ IdleBuild /\ IdleFn /\ IdleEnv /\ IdleDown

\* the reference engines of the tests over the ramp: HardClip of either
\* order from zero history, and their last outputs
NewReference ==
    [first  |-> from_nl_state(State("HardClip", "FirstOrder")),
     second |-> from_nl_state(State("HardClip", "SecondOrder")),
     firstOut |-> 0, secondOut |-> 0]

ReferenceStep(r, f, g) ==
    [first |-> f.adaa, second |-> g.adaa, firstOut |-> f.result, secondOut |-> g.result]

ReferenceProcess(r, val) ==
    IF r = None THEN None
    ELSE ReferenceStep(r, adaa_process(r.first, val), adaa_process(r.second, val))

InitProcessor(reference) ==
    /\ IdleExceptNlp
    /\ state = NewProcessor.state
    /\ proc = NewProcessor.proc
    /\ fade_out = NewProcessor.fade_out
    /\ fade_in = NewProcessor.fade_in
    /\ out = [raw |-> 0, gains |-> <<>>]
    /\ last = [op |-> "new"]
    /\ calls = 0
    /\ reqPhase = "none"
    /\ ref = reference

Init == InitProcessor(None)

\* process, with calls counted up to cap
ProcessCounted(val, cap) ==
    \E r \in {nlp_process(Nlp, val)} :
        /\ state' = r.nlp.state
        /\ proc' = r.nlp.proc
        /\ fade_out' = r.nlp.fade_out
        /\ fade_in' = r.nlp.fade_in
        /\ out' = r.result
        /\ last' = [op |-> "process", val |-> val]
        /\ calls' = IF calls < cap THEN calls + 1 ELSE calls
        /\ reqPhase' = IF r.nlp.fade_out = None THEN "none" ELSE reqPhase
        /\ ref' = ReferenceProcess(ref, val)
        /\ UNCHANGED exceptNlp

Process(val) == ProcessCounted(val, CallsCap)

CompareAndChangeState(other_state) ==
    \E p \in {compare_and_change_state(Nlp, other_state)} :
        /\ calls <= ReqWindow \/ (calls >= FADE_LEN /\ calls <= FADE_LEN + ReqWindow)
        /\ state' = p.state
        /\ proc' = p.proc
        /\ fade_out' = p.fade_out
        /\ fade_in' = p.fade_in
        /\ last' = [op |-> "compare", arg |-> other_state, was |-> state]
        /\ reqPhase' = IF other_state = state THEN reqPhase
                       ELSE IF fade_out # None THEN "fading_out"
                       ELSE IF Running(fade_in) THEN "fading_in"
                       ELSE "steady"
        /\ UNCHANGED <<out, calls, ref, exceptNlp>>

Next ==
    \/ \E val \in Samples : Process(val)
    \/ \E other_state \in ProcessorState : CompareAndChangeState(other_state)

Spec == Init /\ [][Next]_vars

\* the f32 the call returned, to 1 / Coarse: an f32 gain g in units of
\* 2^-GainBits, and nl_process *= g
GainBits == 16

F32Fraction(g) ==
    IF g.m = 0 \/ g.e + GainBits < -30 THEN 0
    ELSE IF g.e + GainBits <= 0 THEN g.s * (g.m \div Pow2(-(g.e + GainBits)))
    ELSE g.s * g.m * Pow2(g.e + GainBits)

MulGain(v, g) == Ratio * ((ToCoarse(v) * F32Fraction(g)) \div Pow2(GainBits))

RECURSIVE MulGains(_, _)
MulGains(v, gains) ==
    IF gains = <<>> THEN v ELSE MulGains(MulGain(v, Head(gains)), Tail(gains))

Returned(o) == MulGains(o.raw, o.gains)

(***************************************************************************)
(* The processor under the ramp of its tests: new(), at most requests      *)
(* before the first sample, then process over INPUT_LINSPACE in order.     *)
(***************************************************************************)
INPUT_LINSPACE == [i \in 1..50 |-> -2 * Scale + (i - 1) * ((8 * Scale) \div 100)]

RampProcess == calls < Len(INPUT_LINSPACE) /\ Process(INPUT_LINSPACE[calls + 1])

RampRequest(other_state) == calls = 0 /\ CompareAndChangeState(other_state)

NextRamp ==
    \/ RampProcess
    \/ \E other_state \in ProcessorState : RampRequest(other_state)

InitRamp == InitProcessor(NewReference)

SpecRamp == InitRamp /\ [][NextRamp]_vars


(***************************************************************************)
(* adaa_nl/src/adaa.rs: an ADAA engine on its own, of any style and order, *)
(* fed samples that repeat, that differ by less than ERR_TOL, by just more *)
(* than ERR_TOL, and by whole units.                                       *)
(***************************************************************************)
\* the largest step below ERR_TOL and the smallest step not below it
SubTol == (Scale + TolInverse - 1) \div TolInverse - 1
OverTol == SubTol + 1

EngineSamples ==
    {0, SubTol, OverTol, -OverTol, Scale, Scale + SubTol, -((3 * Scale) \div 2)}

InitEngine ==
    /\ IdleExceptEngine
    /\ \E nl_state \in ProcessorState : engine = from_nl_state(nl_state)
    /\ engineLast = [op |-> "from_nl_state"]

EngineProcess(val) ==
    \E r \in {adaa_process(engine, val)} :
        /\ engine' = r.adaa
        /\ engineLast' = [op |-> "process", before |-> engine, val |-> val,
                          result |-> r.result, divs |-> r.divs]
        /\ UNCHANGED exceptEngine

NextEngine == \E val \in EngineSamples : EngineProcess(val)

SpecEngine == InitEngine /\ [][NextEngine]_vars


(***************************************************************************)
(* circular_buffer/src/circular_buffer.rs: the delay buffers.  data is     *)
(* 0-indexed in the source: data[pos] there is data[pos + 1] here.         *)
(***************************************************************************)
Zeros(n) == [i \in 1..n |-> 0]

\* CircularDelayBuffer::new
CircularDelayBuffer_new(initial_size) ==
    [data |-> Zeros(initial_size), pos |-> 0, size |-> initial_size]

\* CircularDelayBuffer::push
CircularDelayBuffer_push(b, val) == [b EXCEPT !.data[b.pos + 1] = val]

\* CircularDelayBuffer::decrement_pos
CircularDelayBuffer_decrement_pos(b) ==
    [b EXCEPT !.pos = IF b.pos = 0 THEN b.size - 1 ELSE b.pos - 1]

\* a delay step that reads the cell before the new sample overwrites it
CircularDelayBuffer_delay_step_ReadFirst(b, v) ==
    [buf |-> CircularDelayBuffer_decrement_pos(CircularDelayBuffer_push(b, v)),
     v   |-> b.data[b.pos + 1]]

\* CircularDelayBuffer::delay, the closure applied to one sample: the buffer
\* after it and the value written back
CircularDelayBuffer_delay_step(b, v) ==
    LET b2 == CircularDelayBuffer_decrement_pos(CircularDelayBuffer_push(b, v))
    IN  [buf |-> b2, v |-> b2.data[b2.pos + 1]]

\* CircularDelayBuffer::delay: the buffer after the call and the block as
\* rewritten in place
RECURSIVE CircularDelayBuffer_delay(_, _)
CircularDelayBuffer_delay(b, input) ==
    IF input = <<>> THEN [buf |-> b, out |-> <<>>]
    ELSE LET r    == CircularDelayBuffer_delay_step(b, Head(input))
             rest == CircularDelayBuffer_delay(r.buf, Tail(input))
         IN  [buf |-> rest.buf, out |-> <<r.v>> \o rest.out]

\* CircularDelayBuffer::reset
CircularDelayBuffer_reset(b) == [b EXCEPT !.data = Zeros(Len(b.data)), !.pos = 0]

\* SizedDelayBuffer::<MAX_DELAY_LEN>::new, with its assertion
SizedDelayBuffer_new(max_delay_len, delay_len) ==
    IF delay_len <= max_delay_len /\ delay_len > 0
    THEN [data |-> Zeros(max_delay_len), num_samples_delay |-> delay_len, pos |-> 0]
    ELSE "panic"

\* SizedDelayBuffer::push
SizedDelayBuffer_push(b, val) == [b EXCEPT !.data[b.pos + 1] = val]

\* a cursor that wraps at the capacity instead of the delay length
SizedDelayBuffer_decrement_pos_WrapAtCapacity(b) ==
    [b EXCEPT !.pos = IF b.pos = 0 THEN Len(b.data) - 1 ELSE b.pos - 1]

\* SizedDelayBuffer::decrement_pos
SizedDelayBuffer_decrement_pos(b) ==
    [b EXCEPT !.pos = IF b.pos = 0 THEN b.num_samples_delay - 1 ELSE b.pos - 1]

\* SizedDelayBuffer::reset
SizedDelayBuffer_reset(b) == [b EXCEPT !.data = Zeros(Len(b.data)), !.pos = 0]

\* SizedDelayBuffer::delay, the closure applied to one sample
SizedDelayBuffer_delay_step(b, v) ==
    LET b2 == SizedDelayBuffer_decrement_pos(SizedDelayBuffer_push(b, v))
    IN  [buf |-> b2, v |-> b2.data[b2.pos + 1]]

\* SizedDelayBuffer::delay
RECURSIVE SizedDelayBuffer_delay(_, _)
SizedDelayBuffer_delay(b, input) ==
    IF input = <<>> THEN [buf |-> b, out |-> <<>>]
    ELSE LET r    == SizedDelayBuffer_delay_step(b, Head(input))
             rest == SizedDelayBuffer_delay(r.buf, Tail(input))
         IN  [buf |-> rest.buf, out |-> <<r.v>> \o rest.out]

(***************************************************************************)
(* The two delay buffers as a state machine: both are built with the same  *)
(* delay length and fed the same blocks.                                   *)
(***************************************************************************)
\* the capacity of the SizedDelayBuffer; delay lengths run from 1 to it
MAX_DELAY_LEN == 4
\* the longest block passed to one delay call
MaxBlock == 3
\* the number of samples passed to delay in a run
MaxStream == 8

\* the samples passed to delay: never 0, the value a fresh buffer holds
DelaySamples == {1, 2}

Blocks == UNION {[1..n -> DelaySamples] : n \in 1..MaxBlock}

InitDelay ==
    /\ IdleExceptDelay
    /\ \E n \in 1..MAX_DELAY_LEN :
          /\ circ = CircularDelayBuffer_new(n)
          /\ sized = SizedDelayBuffer_new(MAX_DELAY_LEN, n)
    /\ dIn = <<>> /\ dOutCirc = <<>> /\ dOutSized = <<>> /\ dCalls = 0

Delay(block) ==
    LET rc == CircularDelayBuffer_delay(circ, block)
        rs == SizedDelayBuffer_delay(sized, block)
    IN  /\ Len(dIn) + Len(block) <= MaxStream
        /\ circ' = rc.buf
        /\ sized' = rs.buf
        /\ dIn' = dIn \o block
        /\ dOutCirc' = dOutCirc \o rc.out
        /\ dOutSized' = dOutSized \o rs.out
        /\ dCalls' = dCalls + 1
        /\ UNCHANGED exceptDelay

NextDelay == \E block \in Blocks : Delay(block)

SpecDelay == InitDelay /\ [][NextDelay]_vars

\* reset of both buffers; the histories start again with the emptied buffers
ResetDelay ==
    /\ circ' = CircularDelayBuffer_reset(circ)
    /\ sized' = SizedDelayBuffer_reset(sized)
    /\ dIn' = <<>> /\ dOutCirc' = <<>> /\ dOutSized' = <<>> /\ dCalls' = 0
    /\ UNCHANGED exceptDelay

NextDelayReset ==
    \/ \E block \in Blocks : Delay(block)
    \/ ResetDelay

SpecDelayReset == InitDelay /\ [][NextDelayReset]_vars


(***************************************************************************)
(* oversampler/src/oversample: the half-band kernel and one up-sample      *)
(* stage.  Samples are integers (1 is full scale), kernel taps and stage   *)
(* outputs are in units of 1/KernelUnit.                                   *)
(***************************************************************************)
KernelUnit == 10000 * 10000

TOTAL_FILTER_TAPS == 63
NUM_OS_FILTER_TAPS == 32
UP_DELAY == NUM_OS_FILTER_TAPS \div 2

\* build_filter_coefs(): sinc(0.5) * hann * kaiser(10), normalised, as the f32
\* code computes it, each tap rounded to 1/KernelUnit
build_filter_coefs ==
    <<0, 0, 30, 0, -428, 0, 2517, 0,
      -9810, 0, 29736, 0, -75724, 0, 169371, 0,
      -342579, -1, 640195, 0, -1125483, -1, 1895615, 1,
      -3130424, 0, 5269637, 1, -9915641, -1, 31592995, 50000006,
      31592995, -1, -9915639, 1, 5269637, 0, -3130424, 1,
      1895615, -1, -1125482, 0, 640195, -1, -342579, 0,
      169371, 0, -75724, 0, 29736, 0, -9810, 0,
      2517, 0, -428, 0, 30, 0, 0>>

\* dot_prod: the fold over the zipped slices, which stops at the shorter one
RECURSIVE dot_prod_from(_, _, _)
dot_prod_from(buf, kernel, i) ==
    IF i > Len(buf) \/ i > Len(kernel) THEN 0
    ELSE buf[i] * kernel[i] + dot_prod_from(buf, kernel, i + 1)

dot_prod(buf, kernel) == dot_prod_from(buf, kernel, 1)

Reverse(seq) == [i \in 1..Len(seq) |-> seq[Len(seq) + 1 - i]]

\* SizedCircularConvBuff32::new: K-1 samples of history, all zero
SizedCircularConvBuff32_new == Zeros(NUM_OS_FILTER_TAPS - 1)

\* SizedCircularConvBuff32::convolve: the block is appended after the retained
\* history, each new sample gets one dot product of the K samples ending at it
\* against the time-reversed kernel, and the last K-1 samples are kept
SizedCircularConvBuff32_convolve(buff, input, kernel) ==
    LET K   == Len(kernel)
        all == buff \o input
    IN  [buff |-> SubSeq(all, Len(all) - (K - 1) + 1, Len(all)),
         out  |-> [i \in 1..Len(input) |->
                     dot_prod(SubSeq(all, i, i + K - 1), Reverse(kernel))]]

\* OversampleStage::<CAP>::new(target_size, SampleRole::UpSampleStage, _):
\* the struct literal
OversampleStage_new(target_size) ==
    [filter_buff  |-> SizedCircularConvBuff32_new,
     delay_buff   |-> SizedDelayBuffer_new(NUM_OS_FILTER_TAPS, UP_DELAY),
     kernel       |-> Zeros(NUM_OS_FILTER_TAPS),
     data         |-> Zeros(target_size),
     scratch_buff |-> Zeros(target_size \div 2),
     delay_coef   |-> None]

\* OversampleStage::initialize_kernel, new_kernel being the coefficients built
initialize_kernel_from(st, new_kernel) ==
    [st EXCEPT
       !.kernel = [i \in 1..Len(st.kernel) |->
                     IF 2 * i - 1 <= Len(new_kernel) THEN new_kernel[2 * i - 1]
                     ELSE st.kernel[i]],
       !.delay_coef = Some(new_kernel[(Len(new_kernel) \div 2) + 1])]

\* OversampleStage::initialize_kernel
initialize_kernel(st) == initialize_kernel_from(st, build_filter_coefs)

\* a process_up whose delayed branch misses the gain of 2
process_up_NoGainOnDelayed(st, input) ==
    LET c == SizedCircularConvBuff32_convolve(st.filter_buff, input, st.kernel)
        d == SizedDelayBuffer_delay(st.delay_buff, input)
    IN  [st EXCEPT
           !.filter_buff = c.buff,
           !.delay_buff = d.buf,
           !.scratch_buff = d.out,
           !.data = [i \in 1..Len(st.data) |->
                       IF i > 2 * Len(input) THEN st.data[i]
                       ELSE IF i % 2 = 1 THEN c.out[(i + 1) \div 2] * 2
                       ELSE d.out[i \div 2] * st.delay_coef[1]]]

\* OversampleStage::process_up: input is copied to scratch_buff, convolved in
\* place with the even-phase kernel, scratch_buff is delayed, and the two are
\* interleaved into data
process_up(st, input) ==
    LET c == SizedCircularConvBuff32_convolve(st.filter_buff, input, st.kernel)
        d == SizedDelayBuffer_delay(st.delay_buff, input)
    IN  [st EXCEPT
           !.filter_buff = c.buff,
           !.delay_buff = d.buf,
           !.scratch_buff = d.out,
           !.data = [i \in 1..Len(st.data) |->
                       IF i > 2 * Len(input) THEN st.data[i]
                       ELSE IF i % 2 = 1 THEN c.out[(i + 1) \div 2] * 2
                       ELSE d.out[i \div 2] * 2 * st.delay_coef[1]]]

(***************************************************************************)
(* One up-sample stage as a state machine: built for blocks of UpBlockLen  *)
(* samples, kernel initialised, then process_up on block after block.      *)
(***************************************************************************)
\* the block length: the stage is built with target_size = 2 * UpBlockLen
UpBlockLen == 4
\* the number of blocks passed to process_up in a run
MaxUpBlocks == 6
\* the number of non-zero samples in a run
MaxImpulses == 1

UpSamples == {-1, 0, 1}

NonZeros(seq) == Cardinality({i \in 1..Len(seq) : seq[i] # 0})

InitStage ==
    /\ IdleExceptStage
    /\ stage = initialize_kernel(OversampleStage_new(2 * UpBlockLen))
    /\ upIn = <<>> /\ upOut = <<>>

ProcessUp(input) ==
    /\ Len(upIn) + Len(input) <= MaxUpBlocks * UpBlockLen
    /\ NonZeros(upIn \o input) <= MaxImpulses
    /\ stage' = process_up(stage, input)
    /\ upIn' = upIn \o input
    /\ upOut' = upOut \o stage'.data
    /\ UNCHANGED exceptStage

NextStage == \E input \in [1..UpBlockLen -> UpSamples] : ProcessUp(input)

SpecStage == InitStage /\ [][NextStage]_vars


(***************************************************************************)
(* oversampler/src/oversample.rs: Oversample, as the file has it: one      *)
(* stage, stage_0, whatever the factor.  process_down names a field the    *)
(* struct does not have and is left out.                                   *)
(***************************************************************************)
\* enum OversampleFactor and `factor as usize`
OversampleFactor == {"TwoTimes", "FourTimes", "EightTimes", "SixteenTimes"}

FactorAsUsize(factor) ==
    CASE factor = "TwoTimes"     -> 1
      [] factor = "FourTimes"    -> 2
      [] factor = "EightTimes"   -> 3
      [] factor = "SixteenTimes" -> 4

\* OversampleStage::reset: filter_buff is not reset
OversampleStage_reset(st) ==
    [st EXCEPT !.delay_buff = SizedDelayBuffer_reset(st.delay_buff),
               !.data = Zeros(Len(st.data)),
               !.scratch_buff = Zeros(Len(st.scratch_buff))]

\* self.delay_coef.unwrap() in OversampleStage::process_up, reached once
\* per sample of input
process_up_panics(st, input) == st.delay_coef = None /\ input # <<>>

\* Oversample::new
Oversample_new(initial_factor, init_buff_size) ==
    [buff_size |-> init_buff_size,
     factor    |-> initial_factor,
     stage_0   |-> OversampleStage_new(init_buff_size)]

\* Oversample::set_oversample_factor
set_oversample_factor(os, new_factor) == [os EXCEPT !.factor = new_factor]

\* Oversample::reset
Oversample_reset(os) == [os EXCEPT !.stage_0 = OversampleStage_reset(os.stage_0)]

\* Oversample::process_up: the Oversample after the call and the caller's
\* output block, which the call does not write
Oversample_process_up(os, input, output) ==
    [os |-> [os EXCEPT !.stage_0 = process_up(os.stage_0, input)], output |-> output]

\* the number of calls made on an Oversample in a run
MaxOsCalls == 4

OsSamples == {0, 1}

\* new(), and stage_0 with its kernel initialised or as new() leaves it
InitOversample ==
    /\ IdleExceptOversample
    /\ \E initial_factor \in OversampleFactor, ready \in BOOLEAN :
          oversample = IF ready
                       THEN [Oversample_new(initial_factor, 2 * UpBlockLen) EXCEPT
                                !.stage_0 = initialize_kernel(@)]
                       ELSE Oversample_new(initial_factor, 2 * UpBlockLen)
    /\ osOutput = <<>>
    /\ osLast = [op |-> "new", n |-> 0, panicked |-> FALSE]

OsCallAllowed == osLast.n < MaxOsCalls /\ ~osLast.panicked

\* the caller passes a zeroed block of factor times the input's length
OsProcessUp(input) ==
    /\ OsCallAllowed
    /\ NonZeros(input) <= MaxImpulses
    /\ IF process_up_panics(oversample.stage_0, input)
       THEN /\ osLast' = [op |-> "process_up", n |-> osLast.n + 1, panicked |-> TRUE,
                          input |-> input]
            /\ UNCHANGED <<oversample, osOutput>>
       ELSE \E r \in {Oversample_process_up(oversample, input,
                         Zeros(Pow2(FactorAsUsize(oversample.factor)) * Len(input)))} :
               /\ oversample' = r.os
               /\ osOutput' = r.output
               /\ osLast' = [op |-> "process_up", n |-> osLast.n + 1,
                             panicked |-> FALSE, input |-> input]
    /\ UNCHANGED exceptOversample

OsSetFactor(new_factor) ==
    /\ OsCallAllowed
    /\ oversample' = set_oversample_factor(oversample, new_factor)
    /\ osLast' = [op |-> "set_oversample_factor", n |-> osLast.n + 1,
                  panicked |-> FALSE, was |-> oversample.factor]
    /\ UNCHANGED <<osOutput, exceptOversample>>

OsReset ==
    /\ OsCallAllowed
    /\ oversample' = Oversample_reset(oversample)
    /\ osLast' = [op |-> "reset", n |-> osLast.n + 1, panicked |-> FALSE]
    /\ UNCHANGED <<osOutput, exceptOversample>>

NextOversample ==
    \/ \E input \in [1..UpBlockLen -> OsSamples] : OsProcessUp(input)
    \/ \E new_factor \in OversampleFactor : OsSetFactor(new_factor)
    \/ OsReset

SpecOversample == InitOversample /\ [][NextOversample]_vars


(***************************************************************************)
(* circular_buffer/src/circular_buffer.rs: TiledConv, the block FIR        *)
(* convolver.  Samples and kernel taps are small integers, which f32       *)
(* arithmetic represents exactly.  buffer[i] of the source is buffer[i+1]. *)
(***************************************************************************)
TiledConv_new(k_len, i_len) ==
    [buffer |-> Zeros(k_len + i_len - 1), k_len |-> k_len, i_len |-> i_len]

\* copy_nonoverlapping of src onto the front of dst
fast_copy(src, dst) ==
    IF Len(src) <= Len(dst)
    THEN [i \in 1..Len(dst) |-> IF i <= Len(src) THEN src[i] ELSE dst[i]]
    ELSE "panic"

\* one lane of the vector accumulator after the first chunks chunks of 4
RECURSIVE lane_sum(_, _, _, _)
lane_sum(a, b, lane, chunks) ==
    IF chunks = 0 THEN 0
    ELSE lane_sum(a, b, lane, chunks - 1)
         + a[4 * (chunks - 1) + lane] * b[4 * (chunks - 1) + lane]

\* the scalar loop over the remainder of chunks_exact(4), from index from on
RECURSIVE remain_sum(_, _, _, _)
remain_sum(a, b, from, acc) ==
    IF from > Len(a) THEN acc
    ELSE remain_sum(a, b, from + 1, acc + a[from] * b[from])

neon_dot_product(a, b) ==
    IF Len(a) # Len(b) THEN "panic"
    ELSE LET chunks == Len(a) \div 4
             sum == [lane \in 1..4 |-> lane_sum(a, b, lane, chunks)]
             vaddvq == sum[1] + sum[2] + sum[3] + sum[4]
         IN  remain_sum(a, b, 4 * chunks + 1, 0 + vaddvq)

\* convolve that does not carry the tail of the block over to the next call
TiledConv_convolve_NoCarry(t, input, kernel) ==
    LET copied == SubSeq(t.buffer, 1, t.k_len - 1)
                  \o fast_copy(input, SubSeq(t.buffer, t.k_len, Len(t.buffer)))
        output == [i \in 1..t.i_len |->
                     neon_dot_product(SubSeq(copied, i, i + t.k_len - 1), kernel)]
    IN  [conv |-> [t EXCEPT !.buffer = copied], input |-> output]

\* returns the convolver after the call and the block as the call leaves it
TiledConv_convolve(t, input, kernel) ==
    LET copied == SubSeq(t.buffer, 1, t.k_len - 1)
                  \o fast_copy(input, SubSeq(t.buffer, t.k_len, Len(t.buffer)))
        output == [i \in 1..t.i_len |->
                     neon_dot_product(SubSeq(copied, i, i + t.k_len - 1), kernel)]
        \* buffer[i] = buffer[i_len + i] reads ahead of every slot written so far
        shifted == [i \in 1..Len(copied) |->
                      IF i <= t.k_len - 1 THEN copied[t.i_len + i] ELSE copied[i]]
    IN  [conv |-> [t EXCEPT !.buffer = shifted], input |-> output]

MaxKLen == 5
MaxILen == 3
MaxConvStream == 6

ConvSamples == {0, 1}
KernelTaps == {1, 2}

InitConv ==
    /\ IdleExceptConv
    /\ \E k_len \in 1..MaxKLen, i_len \in 1..MaxILen :
          /\ tiled = TiledConv_new(k_len, i_len)
          /\ convKernel \in [1..k_len -> KernelTaps]
    /\ convIn = <<>> /\ convOut = <<>>

Convolve(input) ==
    /\ Len(convIn) + Len(input) <= MaxConvStream
    /\ \E r \in {TiledConv_convolve(tiled, input, convKernel)} :
          /\ tiled' = r.conv
          /\ convOut' = convOut \o r.input
    /\ convIn' = convIn \o input
    /\ UNCHANGED <<convKernel, exceptConv>>

NextConv == \E input \in [1..tiled.i_len -> ConvSamples] : Convolve(input)

SpecConv == InitConv /\ [][NextConv]_vars


(***************************************************************************)
(* Claims about the crossfade state machine, checked under Spec.           *)
(***************************************************************************)
\* the step replaces the engine instance: proc is neither left alone nor
\* advanced by the recurrence
Replaced ==
    proc' # (IF last'.op = "process" THEN adaa_process(proc, last'.val).adaa ELSE proc)

\* the fade-out envelope is making its last (FADE_LEN-th) step in this call
LastFadeOutStep == last'.op = "process" /\ fade_out # None /\ fade_out[1].num_steps = 1

\* C1: a fade-out requested with no ramp running lasts exactly FADE_LEN
\* process calls: its FADE_LEN-th call replaces the engine and clears
\* fade_out, so a pending fade-out always has steps left to run.
C1_SwapOnFadeLenthCall ==
    (reqPhase = "steady" /\ fade_out # None) => fade_out[1].num_steps >= 1

\* C2: a fade-in lasts exactly FADE_LEN process calls: once its FADE_LEN
\* steps are consumed fade_in is None, so a present fade-in envelope always
\* has steps left to run.
C2_SteadyAfterFadeIn ==
    fade_in # None => fade_in[1].num_steps >= 1

\* C3: compare_and_change_state with the current state leaves state, the
\* engine, fade_out and fade_in unchanged.
C3_SameStateNoOp ==
    [][(last'.op = "compare" /\ last'.arg = state)
        => (state' = state /\ proc' = proc /\ fade_out' = fade_out /\ fade_in' = fade_in)]_vars

\* a request for the current state was made on a processor with history
C3_Witness ==
    /\ last.op = "compare"
    /\ last.arg = last.was
    /\ proc.current_proc_state.x1 # 0
    /\ fade_out = None

C5_FadesExclusive ==
    reqPhase = "steady" => ~(fade_out # None /\ fade_in # None)

C7_FreshEngineOnCompletion ==
    [][LastFadeOutStep
        => (/\ proc' = from_nl_state(state)
            /\ fade_out' = None
            /\ fade_in' # None
            /\ Running(fade_in'))]_vars


(***************************************************************************)
(* Claims about the delay buffers, checked under SpecDelay.                *)
(***************************************************************************)
\* a shift register of n cells: a sample is shifted in at the front, the last
\* cell drops out
ShiftIn(reg, v) == <<v>> \o SubSeq(reg, 1, Len(reg) - 1)

\* what a shift register of n cells, read at its last cell after each sample
\* has been shifted in, returns for a stream
RECURSIVE ShiftRegisterReadAfter(_, _)
ShiftRegisterReadAfter(reg, stream) ==
    IF stream = <<>> THEN <<>>
    ELSE LET r == ShiftIn(reg, Head(stream))
         IN  <<r[Len(r)]>> \o ShiftRegisterReadAfter(r, Tail(stream))

\* the stream delayed by d samples, zero for the first d
Delayed(stream, d) == [k \in 1..Len(stream) |-> IF k <= d THEN 0 ELSE stream[k - d]]

ZeroStuff(x) == [i \in 1..2 * Len(x) |-> IF i % 2 = 1 THEN x[(i + 1) \div 2] ELSE 0]

\* sample m of the direct convolution of u with h: the sum of h[k] * u[m-k+1]
\* over the taps k from kk on
RECURSIVE ConvolveAt(_, _, _, _)
ConvolveAt(u, h, m, kk) ==
    IF kk > Len(h) \/ kk > m THEN 0
    ELSE h[kk] * u[m - kk + 1] + ConvolveAt(u, h, m, kk + 1)

\* the reference: zero-stuff, convolve with the full kernel, gain 2
Reference(x) ==
    LET u == ZeroStuff(x)
    IN  [m \in 1..Len(u) |-> 2 * ConvolveAt(u, build_filter_coefs, m, 1)]

\* the kernel's even-indexed taps (0-based), i.e. every other tap from the first
EvenTaps == [j \in 1..((TOTAL_FILTER_TAPS + 1) \div 2) |-> build_filter_coefs[2 * j - 1]]

\* the centre tap and its 0-based position
Centre == TOTAL_FILTER_TAPS \div 2
CentreTap == build_filter_coefs[Centre + 1]

\* the tolerance of the comparison, 1e-6
UpTol == KernelUnit \div (1000 * 1000)

StreamAt(n) == IF n >= 1 THEN convIn[n] ELSE 0

\* sum over j in 0..upto-1 of kernel[j] * x[n - (K - 1) + j]
RECURSIVE KernelSum(_, _)
KernelSum(n, upto) ==
    IF upto = 0 THEN 0
    ELSE KernelSum(n, upto - 1)
         + convKernel[upto] * StreamAt(n - (Len(convKernel) - 1) + (upto - 1))

\* C11: output sample n of the whole stream is the sum over j in 0..K-1 of
\* kernel[j] * x[n - (K - 1) + j], whatever the block boundaries, and after
\* every call the first K - 1 buffer slots hold the last K - 1 input samples
C11_TiledConvIsStreamFIR ==
    tiled # None =>
        /\ Len(convOut) = Len(convIn)
        /\ \A n \in 1..Len(convOut) : convOut[n] = KernelSum(n, tiled.k_len)
        /\ \A i \in 1..tiled.k_len - 1 :
              tiled.buffer[i] = StreamAt(Len(convIn) - (tiled.k_len - 1) + i)

\* three blocks through a kernel of five taps that is not a palindrome, with
\* an output sample that draws on samples of two blocks
C11_Witness ==
    /\ tiled # None
    /\ tiled.k_len = 5 /\ tiled.i_len = 2
    /\ convKernel = <<1, 2, 2, 1, 2>>
    /\ convIn = <<1, 0, 0, 1, 1, 0>>
    /\ convOut[4] = 4

(***************************************************************************)
(* Claims about the recurrences, checked under SpecEngine.                 *)
(***************************************************************************)
\* |d| < 1e-5
WithinEpsilon(d) == AbsV(d) <= (Scale - 1) \div 100000

\* the ProcState before and after the last call, and the call's sample
Before == engineLast.before.current_proc_state
After == engine.current_proc_state
X0 == engineLast.val

FirstOrderCall ==
    engineLast.op = "process" /\ engineLast.before.proc_alg = "PROCESS_FIRST_ORDER"

SecondOrderCall ==
    engineLast.op = "process" /\ engineLast.before.proc_alg = "PROCESS_SECOND_ORDER"

\* C15: process_first_order returns f((x0 + x1) / 2) when |x0 - x1| < 1e-5
\* and (F1(x0) - ad1_x1) / (x0 - x1) otherwise; on both branches it sets
\* x1 to x0 and ad1_x1 to F1(x0) and leaves x2, d2, ad2_x0, ad2_x1 and the
\* functions as they were
C15_FirstOrderRecurrence ==
    FirstOrderCall =>
        /\ engineLast.result =
              IF WithinEpsilon(X0 - Before.x1)
              THEN Call(Before.nl_func, (X0 + Before.x1) \div 2)
              ELSE FDiv(Call(Before.nl_func_ad1, X0) - Before.ad1_x1, X0 - Before.x1)
        /\ After = [Before EXCEPT !.x1 = X0, !.ad1_x1 = Call(Before.nl_func_ad1, X0)]

\* a first-order call on a step that is not zero and below 1e-5, away from 0
C15_Witness ==
    /\ FirstOrderCall
    /\ Before.x1 = Scale
    /\ X0 = Scale + SubTol
    /\ engineLast.result # 0

\* the value process_second_order is to return
SecondOrderD1 ==
    IF WithinEpsilon(X0 - Before.x1)
    THEN Call(Before.nl_func_ad1, (X0 + Before.x1) \div 2)
    ELSE FDiv(Call(Before.nl_func_ad2, X0) - Before.ad2_x1, X0 - Before.x1)

Xbar == (X0 + Before.x2) \div 2
Delta == Xbar - Before.x1

SecondOrderResult ==
    IF ~WithinEpsilon(X0 - Before.x2)
    THEN FDiv(2 * (SecondOrderD1 - Before.d2), X0 - Before.x2)
    ELSE IF WithinEpsilon(Delta)
         THEN Call(Before.nl_func, (Xbar + Before.x1) \div 2)
         ELSE FDiv(2 * (Call(Before.nl_func_ad1, Xbar)
                        + FDiv(Before.ad2_x1 - Call(Before.nl_func_ad2, Xbar), Delta)),
                   Delta)

\* C16: process_second_order computes ad2_x0 = F2(x0) and d1, returns
\* (2 / (x0 - x2)) (d1 - d2) if |x0 - x2| >= 1e-5, else f((xbar + x1) / 2) if
\* |delta| < 1e-5, else (2 / delta) (F1(xbar) + (ad2_x1 - F2(xbar)) / delta);
\* on every branch it then sets d2 to d1, x2 to x1, x1 to x0, ad2_x1 to ad2_x0
C16_SecondOrderRecurrence ==
    SecondOrderCall =>
        /\ engineLast.result = SecondOrderResult
        /\ After.d2 = SecondOrderD1
        /\ After.x2 = Before.x1
        /\ After.x1 = X0
        /\ After.ad2_x1 = Call(Before.nl_func_ad2, X0)
        /\ After.ad2_x0 = Call(Before.nl_func_ad2, X0)

\* a second-order call that took the branch with delta not below 1e-5, after
\* calls that took the other branches
C16_Witness ==
    /\ SecondOrderCall
    /\ WithinEpsilon(X0 - Before.x2)
    /\ ~WithinEpsilon(Delta)
    /\ ~WithinEpsilon(X0 - Before.x1)
    /\ Before.d2 # 0
    /\ engineLast.result # 0

\* C17: in both recurrences every division is executed only when the
\* absolute value of its denominator is at least 1e-5, for every style, both
\* orders and every sequence of inputs: process never divides by zero
C17_DivisionsGated ==
    engineLast.op = "process" =>
        \A i \in 1..Len(engineLast.divs) :
            /\ engineLast.divs[i] # 0
            /\ ~WithinEpsilon(engineLast.divs[i])

\* a second-order call after a step below 1e-5 that is not zero: the division
\* by x0 - x2 is left out, the divisions by x0 - x1 and by delta, both just
\* above 1e-5, are made
C17_Witness ==
    /\ SecondOrderCall
    /\ X0 - Before.x2 = SubTol
    /\ engineLast.divs = <<SubTol + OverTol, OverTol + 1, OverTol + 1>>

(***************************************************************************)
(* Claims about the values process returns, checked under Spec (C12) and   *)
(* under SpecRamp (C13, C14).                                              *)
(***************************************************************************)
\* the gain of the one envelope that is active before a call: the fade-out
\* if there is one, else the fade-in if there is one
ActiveGains ==
    IF fade_out # None THEN <<Consume(fade_out[1]).gain>>
    ELSE IF fade_in # None THEN <<Consume(fade_in[1]).gain>>
    ELSE <<>>

\* the gains that change the value they multiply
NotOne(gains) == SelectSeq(gains, LAMBDA g : g # F32One)

\* C12: every process call advances the engine recurrence exactly once and
\* returns the raw engine output multiplied by the current gain of the
\* active fade envelope, or the raw engine output unchanged when the
\* processor is Steady
C12_RawTimesActiveGain ==
    [][last'.op = "process" =>
          /\ proc' = adaa_process(proc, last'.val).adaa
          /\ out'.raw = adaa_process(proc, last'.val).result
          /\ NotOne(out'.gains) = NotOne(ActiveGains)]_vars

\* |a - b| <= 1e-2
Close(a, b) == AbsV(a - b) * 100 <= Scale

\* C13: on a fresh processor the outputs of process equal, from the very
\* first sample, the outputs of the first-order HardClip recurrence started
\* from zero history (within 1e-2 over the ramp)
C13_FreshIsFirstOrderHardClip ==
    (calls >= 1 /\ fade_out = None) =>
        Close(Returned(out), ref.firstOut)

\* C14: immediately after compare_and_change_state(State(HardClip,
\* SecondOrder)) on a new processor the state reads (HardClip, SecondOrder)
\* and the following outputs equal the second-order HardClip recurrence
\* started from zero history (within 1e-2)
C14_RequestedIsSecondOrderHardClip ==
    /\ (last.op = "compare" /\ calls = 0) => state = last.arg
    /\ (calls >= 1 /\ fade_out # None /\ state = State("HardClip", "SecondOrder")) =>
          Close(Returned(out), ref.secondOut)

(***************************************************************************)
(* Claims about Oversample, checked under SpecOversample.                  *)
(***************************************************************************)
AllZero(seq) == \A i \in 1..Len(seq) : seq[i] = 0

\* every sample a stage stores is zero
StageZeroed(st) ==
    /\ AllZero(st.filter_buff)
    /\ AllZero(st.delay_buff.data)
    /\ AllZero(st.data)
    /\ AllZero(st.scratch_buff)

\* C18: changing the factor through set_oversample_factor zeroes every
\* stage's buffers, so that no history recorded under the old factor is left
C18_SetFactorResets ==
    (osLast.op = "set_oversample_factor" /\ osLast.was # oversample.factor) =>
        StageZeroed(oversample.stage_0)

\* the stage as constructed, with the kernel it has
FreshStage(st) ==
    [OversampleStage_new(Len(st.data)) EXCEPT
        !.kernel = st.kernel, !.delay_coef = st.delay_coef]

\* C19: after reset every stored sample is zero, the convolution history,
\* the delay line, data and scratch included, and the delay cursor is 0, so
\* that the component is as a freshly constructed and initialised one
C19_ResetZeroesEverything ==
    osLast.op = "reset" =>
        /\ StageZeroed(oversample.stage_0)
        /\ oversample.stage_0.delay_buff.pos = 0
        /\ oversample.stage_0 = FreshStage(oversample.stage_0)

\* x through k stages in order, each as constructed with the kernel of st,
\* each consuming the output of the one before
RECURSIVE Cascade(_, _, _)
Cascade(st, k, x) ==
    IF k = 0 THEN x
    ELSE LET through == Cascade(st, k - 1, x)
         IN  process_up([FreshStage(st) EXCEPT !.data = Zeros(2 * Len(through))],
                        through).data

\* C20: process_up with factor 2^k passes the input through the first k
\* up-sampling stages in order and writes the resulting 2^k * len(input)
\* samples into the caller's output block (stated for the first call, when
\* every stage is as constructed)
C20_ProcessUpCascades ==
    (osLast.op = "process_up" /\ osLast.n = 1) =>
        /\ ~osLast.panicked
        /\ osOutput = Cascade(oversample.stage_0,
                              FactorAsUsize(oversample.factor), osLast.input)

(***************************************************************************)
(* circular_buffer/src/circular_buffer.rs: the constructors called with    *)
(* any arguments, and the first calls made on what they return.            *)
(***************************************************************************)
\* assert!(delay_len <= MAX_DELAY_LEN && delay_len > 0) in SizedDelayBuffer::new
SizedDelayBuffer_new_panics(max_delay_len, delay_len) ==
    ~(delay_len <= max_delay_len /\ delay_len > 0)

\* self.data[self.pos] in push, the first statement delay runs on a sample
CircularDelayBuffer_delay_panics(b, input) == input # <<>> /\ ~(b.pos < Len(b.data))

\* self.data[self.pos] in SizedDelayBuffer::push
SizedDelayBuffer_delay_panics(b, input) == input # <<>> /\ ~(b.pos < Len(b.data))

\* k_len + i_len - 1 in TiledConv::new, a usize
TiledConv_new_panics(k_len, i_len) == k_len + i_len - 1 < 0

\* TiledConv::convolve: the slice from k_len - 1, the assertion of fast_copy,
\* input[i], the assertion of neon_dot_product
TiledConv_convolve_panics(t, input, kernel) ==
    \/ t.k_len - 1 < 0
    \/ Len(input) > Len(t.buffer) - (t.k_len - 1)
    \/ Len(input) < t.i_len
    \/ (t.i_len > 0 /\ Len(kernel) # t.k_len)

\* the largest length passed to a constructor, and the calls made afterwards
MaxBuildLen == 3
MaxBuildCalls == 2

Construction(kind, misconfigured, rejected, obj, kernel) ==
    [kind |-> kind, misconfigured |-> misconfigured, rejected |-> rejected,
     obj |-> obj, kernel |-> kernel]

\* SizedDelayBuffer::<MAX_DELAY_LEN>::new(delay_len)
BuildSized(delay_len) ==
    LET rejected == SizedDelayBuffer_new_panics(MAX_DELAY_LEN, delay_len)
    IN  Construction("SizedDelayBuffer",
                     delay_len = 0 \/ delay_len > MAX_DELAY_LEN,
                     rejected,
                     IF rejected THEN None
                     ELSE Some(SizedDelayBuffer_new(MAX_DELAY_LEN, delay_len)),
                     <<>>)

\* CircularDelayBuffer::new(initial_size)
BuildCircular(initial_size) ==
    Construction("CircularDelayBuffer", initial_size = 0, FALSE,
                 Some(CircularDelayBuffer_new(initial_size)), <<>>)

\* TiledConv::new(k_len, i_len), to be used with kernel
BuildTiled(k_len, i_len, kernel) ==
    LET rejected == TiledConv_new_panics(k_len, i_len)
    IN  Construction("TiledConv", Len(kernel) # k_len, rejected,
                     IF rejected THEN None ELSE Some(TiledConv_new(k_len, i_len)),
                     kernel)

BuildKernels == UNION {[1..n -> KernelTaps] : n \in 0..MaxBuildLen}

InitBuild ==
    /\ IdleExceptBuild
    /\ \/ \E delay_len \in 0..MAX_DELAY_LEN + 1 : built = BuildSized(delay_len)
       \/ \E initial_size \in 0..MAX_DELAY_LEN : built = BuildCircular(initial_size)
       \/ \E k_len \in 0..MaxBuildLen, i_len \in 0..MaxBuildLen, kernel \in BuildKernels :
             built = BuildTiled(k_len, i_len, kernel)
    /\ builtUse = [op |-> "new", n |-> 0, panicked |-> FALSE]

UseAllowed == ~built.rejected /\ ~builtUse.panicked /\ builtUse.n < MaxBuildCalls

Used(op, panicked) == [op |-> op, n |-> builtUse.n + 1, panicked |-> panicked]

UseSizedDelay(block) ==
    /\ UseAllowed
    /\ built.kind = "SizedDelayBuffer"
    /\ IF SizedDelayBuffer_delay_panics(built.obj[1], block)
       THEN builtUse' = Used("delay", TRUE) /\ UNCHANGED built
       ELSE /\ built' = [built EXCEPT !.obj = Some(SizedDelayBuffer_delay(@[1], block).buf)]
            /\ builtUse' = Used("delay", FALSE)
    /\ UNCHANGED exceptBuild

UseCircularDelay(block) ==
    /\ UseAllowed
    /\ built.kind = "CircularDelayBuffer"
    /\ IF CircularDelayBuffer_delay_panics(built.obj[1], block)
       THEN builtUse' = Used("delay", TRUE) /\ UNCHANGED built
       ELSE /\ built' = [built EXCEPT !.obj = Some(CircularDelayBuffer_delay(@[1], block).buf)]
            /\ builtUse' = Used("delay", FALSE)
    /\ UNCHANGED exceptBuild

UseConvolve(input) ==
    /\ UseAllowed
    /\ built.kind = "TiledConv"
    /\ Len(input) = built.obj[1].i_len
    /\ IF TiledConv_convolve_panics(built.obj[1], input, built.kernel)
       THEN builtUse' = Used("convolve", TRUE) /\ UNCHANGED built
       ELSE /\ built' = [built EXCEPT
                           !.obj = Some(TiledConv_convolve(@[1], input, built.kernel).conv)]
            /\ builtUse' = Used("convolve", FALSE)
    /\ UNCHANGED exceptBuild

NextBuild ==
    \/ \E block \in Blocks : UseSizedDelay(block)
    \/ \E block \in Blocks : UseCircularDelay(block)
    \/ \E n \in 0..MaxBuildLen : \E input \in [1..n -> ConvSamples] : UseConvolve(input)

SpecBuild == InitBuild /\ [][NextBuild]_vars

\* C21: a zero-length delay buffer, a SizedDelayBuffer longer than its
\* capacity and a convolution buffer whose size differs from the length of
\* the kernel it is used with are rejected by the constructor, so that no
\* later delay or convolve call is ever made on one
C21_MisconfigurationFailsFast == built.misconfigured => built.rejected

(***************************************************************************)
(* Claims about the cursor of the delay buffers, checked under             *)
(* SpecDelayReset.                                                         *)
(***************************************************************************)
\* C22: after any sequence of delay and reset calls on a delay buffer built
\* with length N >= 1 the cursor satisfies 0 <= pos < N, and decrementing
\* the cursor from 0 gives N - 1
C22_CursorInRange ==
    /\ circ.pos \in 0..circ.size - 1
    /\ sized.pos \in 0..sized.num_samples_delay - 1
    /\ CircularDelayBuffer_decrement_pos([circ EXCEPT !.pos = 0]).pos = circ.size - 1
    /\ SizedDelayBuffer_decrement_pos([sized EXCEPT !.pos = 0]).pos
          = sized.num_samples_delay - 1

\* both cursors have wrapped from 0 to N - 1, in a SizedDelayBuffer whose
\* delay length is below its capacity
C22_Witness ==
    /\ dCalls > 0
    /\ sized.num_samples_delay \in 2..Len(sized.data) - 1
    /\ sized.pos = sized.num_samples_delay - 1
    /\ circ.pos = circ.size - 1

(***************************************************************************)
(* The processor left to settle: new(), at most one request before the     *)
(* first sample, then process calls only, counted up to two fade lengths.  *)
(***************************************************************************)
SettleCap == 2 * FADE_LEN

SettleProcess(val) == ProcessCounted(val, SettleCap)

SettleRequest(other_state) == calls = 0 /\ CompareAndChangeState(other_state)

NextSettle ==
    \/ \E val \in Samples : SettleProcess(val)
    \/ \E other_state \in ProcessorState : SettleRequest(other_state)

SpecSettle == Init /\ [][NextSettle]_vars

Steady == fade_out = None /\ fade_in = None

\* the engine has the function table and the algorithm that nl_state selects
EngineMatches(adaa, nl_state) ==
    LET built_for == from_nl_state(nl_state)
    IN  /\ adaa.proc_alg = built_for.proc_alg
        /\ adaa.current_proc_state.nl_func = built_for.current_proc_state.nl_func
        /\ adaa.current_proc_state.nl_func_ad1 = built_for.current_proc_state.nl_func_ad1
        /\ adaa.current_proc_state.nl_func_ad2 = built_for.current_proc_state.nl_func_ad2

\* C23: 2 * FADE_LEN process calls after the last request the processor is
\* Steady, no envelope left, with the engine built for the recorded state
C23_SteadyWithinTwoFades ==
    calls >= 2 * FADE_LEN => (Steady /\ EngineMatches(proc, state))

\* an envelope that has used up its steps short of its target
Stuck(opt) == opt # None /\ opt[1].num_steps = 0 /\ ~TargetReached(opt[1])

\* a fade-in that is stuck stays so whatever is called
StuckFadeInStays == [][Stuck(fade_in) => Stuck(fade_in')]_vars

(***************************************************************************)
(* adaa_nl/src/adaa.rs: the function triples of ProcState on their own: a  *)
(* style and an argument are chosen, then f, F1 and F2 are called through  *)
(* the pointers of the style's ProcState.                                  *)
(***************************************************************************)
\* arguments run over -3.0 .. 3.0 in steps of 1 / FnGrid
FnGrid == 20

FnArgs == {(k * Scale) \div FnGrid : k \in -3 * FnGrid..3 * FnGrid}

proc_state_of(style) == from_nl_state(State(style, "FirstOrder")).current_proc_state

InitFn ==
    /\ IdleExceptFn
    /\ \E style \in ProcessorStyle, x \in FnArgs : fnArg = [style |-> style, x |-> x]
    /\ fnVal = None

Evaluate ==
    /\ fnVal = None
    /\ fnVal' = Some([f   |-> Call(proc_state_of(fnArg.style).nl_func, fnArg.x),
                      ad1 |-> Call(proc_state_of(fnArg.style).nl_func_ad1, fnArg.x),
                      ad2 |-> Call(proc_state_of(fnArg.style).nl_func_ad2, fnArg.x)])
    /\ UNCHANGED <<fnArg, exceptFn>>

NextFn == Evaluate

SpecFn == InitFn /\ [][NextFn]_vars

(***************************************************************************)
(* Claims about the HardClip triple, checked under SpecFn.  Values are     *)
(* compared at the resolution of the functions, 1 / Coarse, with the       *)
(* products of the closed forms cleared of their denominators.             *)
(***************************************************************************)
\* the rounding of the functions, in units of 1 / Coarse
FnTol == 2 + 1

HardClipEvaluated == fnVal # None /\ fnArg.style = "HardClip"

\* f(x) = clamp(x, -1, 1)
HardClipIsClamp ==
    fnVal[1].f = (IF fnArg.x < -Scale THEN -Scale
                  ELSE IF fnArg.x > Scale THEN Scale ELSE fnArg.x)

\* F1(x) = x^2 / 2 for |x| <= 1 and |x| - 1/2 otherwise
HardClipAd1ClosedForm ==
    LET c == ToCoarse(fnArg.x)
        v == ToCoarse(fnVal[1].ad1)
    IN  IF AbsV(c) <= Coarse
        THEN AbsV(2 * Coarse * v - c * c) <= 2 * Coarse * FnTol
        ELSE AbsV(2 * v - (2 * AbsV(c) - Coarse)) <= 2 * FnTol

\* F2(x) = x^3 / 6 for |x| <= 1
HardClipAd2Inside ==
    LET c == ToCoarse(fnArg.x)
        v == ToCoarse(fnVal[1].ad2)
    IN  AbsV(c) <= Coarse =>
            AbsV(6 * Coarse * Coarse * v - c * c * c) <= 6 * Coarse * Coarse * FnTol

\* F2 takes the same value at +-1 from inside and from just outside
HardClipAd2Continuous ==
    /\ AbsV(HARD_CLIP_AD2(Scale + Ratio) - HARD_CLIP_AD2(Scale)) <= Ratio * FnTol
    /\ AbsV(HARD_CLIP_AD2(-Scale - Ratio) - HARD_CLIP_AD2(-Scale)) <= Ratio * FnTol

\* F2(x) = sign(x) * (x^2 / 2 + 1/6) - x / 2 for |x| > 1
HardClipAd2QuadraticOutside ==
    LET c == ToCoarse(fnArg.x)
        v == ToCoarse(fnVal[1].ad2)
    IN  AbsV(c) > Coarse =>
            AbsV(6 * Coarse * v
                 - (SignV(c) * (3 * c * c + Coarse * Coarse) - 3 * c * Coarse))
                <= 6 * Coarse * FnTol

\* the second difference of F2 over steps of 1/2 on one side of [-1, 1]
Ad2SecondDifference(x) ==
    LET h == SignV(x) * (Scale \div 2)
    IN  HARD_CLIP_AD2(x + 2 * h) - 2 * HARD_CLIP_AD2(x + h) + fnVal[1].ad2

\* F2 is affine for |x| > 1: its second difference vanishes there
HardClipAd2AffineOutside ==
    AbsV(fnArg.x) > Scale => AbsV(Ad2SecondDifference(fnArg.x)) <= 4 * Ratio * FnTol

\* C24 as stated: f is the clamp, F1 is x^2 / 2 inside [-1, 1] and |x| - 1/2
\* outside, F2 is x^3 / 6 inside and affine outside, continuous at +-1
C24_HardClipTripleAffine ==
    HardClipEvaluated =>
        /\ HardClipIsClamp
        /\ HardClipAd1ClosedForm
        /\ HardClipAd2Inside
        /\ HardClipAd2AffineOutside
        /\ HardClipAd2Continuous

\* C24, amended: f is the clamp, F1 is x^2 / 2 inside [-1, 1] and |x| - 1/2
\* outside, F2 is x^3 / 6 inside and sign(x) * (x^2 / 2 + 1/6) - x / 2
\* outside, a quadratic, continuous at +-1
C24_HardClipTriple ==
    HardClipEvaluated =>
        /\ HardClipIsClamp
        /\ HardClipAd1ClosedForm
        /\ HardClipAd2Inside
        /\ HardClipAd2QuadraticOutside
        /\ HardClipAd2Continuous

\* the triple evaluated outside [-1, 1]
C24_Witness == HardClipEvaluated /\ AbsV(fnArg.x) > Scale

(***************************************************************************)
(* envelope/src/lib.rs: a LinearEnvelope on its own, a fade-in from 0 to 1 *)
(* or a fade-out from 1 to 0 over steps steps, consumed past its end.      *)
(***************************************************************************)
\* step counts run from 1 to MaxEnvSteps, and FADE_LEN
MaxEnvSteps == 10
\* consume calls made after the last step
EnvExtra == 2

EnvSteps == 1..MaxEnvSteps \cup {FADE_LEN}

InitEnv ==
    /\ IdleExceptEnv
    /\ \E steps \in EnvSteps :
          \/ /\ envelope = FadeInEnv(steps)
             /\ envLast = [kind |-> "fade_in", steps |-> steps, n |-> 0,
                           gain |-> F32Zero, prev |-> F32Zero, before |-> FadeInEnv(steps)]
          \/ /\ envelope = FadeOutEnv(steps)
             /\ envLast = [kind |-> "fade_out", steps |-> steps, n |-> 0,
                           gain |-> F32One, prev |-> F32One, before |-> FadeOutEnv(steps)]

EnvConsume ==
    /\ envLast.n < envLast.steps + EnvExtra
    /\ \E c \in {Consume(envelope)} :
          /\ envelope' = c.env
          /\ envLast' = [envLast EXCEPT !.n = @ + 1, !.gain = c.gain,
                                        !.prev = envLast.gain, !.before = envelope]
    /\ UNCHANGED exceptEnv

NextEnv == EnvConsume

SpecEnv == InitEnv /\ [][NextEnv]_vars

(***************************************************************************)
(* Claims about LinearEnvelope, checked under SpecEnv.                     *)
(***************************************************************************)
\* gains are compared with the ramp to EnvTol units of 2^-GainBits
EnvTol == 2 * 2 * 2

\* a <= b, exactly
F32Le(a, b) == LET d == F32Add(b, F32Neg(a)) IN d.m = 0 \/ d.s = 1

\* the i-th consume returns s + i * (t - s) / N, for 1 <= i <= N
EnvOnRamp ==
    (envLast.n >= 1 /\ envLast.n <= envLast.steps) =>
        AbsV(F32Fraction(envLast.gain) * envLast.steps
             - Pow2(GainBits) * (IF envLast.kind = "fade_in" THEN envLast.n
                                 ELSE envLast.steps - envLast.n))
            <= EnvTol * envLast.steps

\* the gains move toward the target
EnvMonotone ==
    IF envLast.kind = "fade_in" THEN F32Le(envLast.prev, envLast.gain)
    ELSE F32Le(envLast.gain, envLast.prev)

\* target_reached is false before the N-th consume and true from it on
EnvReachedAfterSteps == TargetReached(envelope) <=> envLast.n >= envLast.steps

\* a consume after the N-th returns the target and leaves the envelope as it was
EnvRestsAtTarget ==
    envLast.n > envLast.steps =>
        (envLast.gain = envelope.target_value /\ envelope = envLast.before)

\* C25: the i-th consume of a LinearEnvelope of N steps returns
\* s + i * (t - s) / N, the gains move monotonically toward t, target_reached
\* first becomes true after exactly N consume calls, num_steps never is
\* negative, and every later consume returns t and changes nothing
C25_LinearEnvelopeRamp ==
    /\ EnvOnRamp
    /\ EnvMonotone
    /\ EnvReachedAfterSteps
    /\ envelope.num_steps >= 0
    /\ EnvRestsAtTarget

\* what of C25 holds: the ramp to EnvTol, gains monotone over the N steps,
\* num_steps not negative, the target returned after the N-th call
EnvWithinRamp ==
    /\ EnvOnRamp
    /\ envLast.n <= envLast.steps => EnvMonotone
    /\ envelope.num_steps >= 0
    /\ EnvRestsAtTarget

(***************************************************************************)
(* oversampler/src/oversample/oversample_stage.rs: the stage in the        *)
(* down-sample role.                                                       *)
(***************************************************************************)
DOWN_DELAY == (NUM_OS_FILTER_TAPS \div 2) + 1

\* OversampleStage::<CAP>::new(target_size, SampleRole::DownSampleStage, _):
\* the struct literal
OversampleStage_new_down(target_size) ==
    [filter_buff  |-> SizedCircularConvBuff32_new,
     delay_buff   |-> SizedDelayBuffer_new(NUM_OS_FILTER_TAPS, DOWN_DELAY),
     kernel       |-> Zeros(NUM_OS_FILTER_TAPS),
     data         |-> Zeros(target_size),
     scratch_buff |-> Zeros(target_size),
     delay_coef   |-> None]

\* dst.iter_mut().zip(src.iter().skip(skip).step_by(2)).for_each(|(a, b)| *a = *b * gain)
ZipStepBy2(dst, src, skip, gain) ==
    [i \in 1..Len(dst) |->
        IF skip + 2 * i - 1 <= Len(src) THEN src[skip + 2 * i - 1] * gain ELSE dst[i]]

\* a process_down whose odd branch is not scaled by the centre coefficient
process_down_OddUnscaled(st, input) ==
    LET c == SizedCircularConvBuff32_convolve(st.filter_buff,
                                              ZipStepBy2(st.data, input, 0, 1), st.kernel)
        d == SizedDelayBuffer_delay(st.delay_buff,
                                    ZipStepBy2(st.scratch_buff, input, 1, 1))
    IN  [st EXCEPT
           !.filter_buff = c.buff,
           !.delay_buff = d.buf,
           !.scratch_buff = d.out,
           !.data = [i \in 1..Len(st.data) |->
                       IF i <= Len(d.out) THEN c.out[i] + d.out[i] ELSE c.out[i]]]

\* OversampleStage::process_down: the even-indexed samples go to data and are
\* convolved in place, the odd-indexed ones go to scratch_buff times the
\* centre coefficient and are delayed, and scratch_buff is added to data
process_down(st, input) ==
    LET c == SizedCircularConvBuff32_convolve(st.filter_buff,
                                              ZipStepBy2(st.data, input, 0, 1), st.kernel)
        d == SizedDelayBuffer_delay(st.delay_buff,
                                    ZipStepBy2(st.scratch_buff, input, 1, st.delay_coef[1]))
    IN  [st EXCEPT
           !.filter_buff = c.buff,
           !.delay_buff = d.buf,
           !.scratch_buff = d.out,
           !.data = [i \in 1..Len(st.data) |->
                       IF i <= Len(d.out) THEN c.out[i] + d.out[i] ELSE c.out[i]]]

(***************************************************************************)
(* One down-sample stage as a state machine: built for DownBlockLen output *)
(* samples, kernel initialised, then process_down on blocks of twice that. *)
(***************************************************************************)
\* the samples one call produces: the stage is built with this target_size
DownBlockLen == 2
\* the number of blocks passed to process_down in a run
MaxDownBlocks == 10

DownSamples == {0, 1}

InitDown ==
    /\ IdleExceptDown
    /\ downStage = initialize_kernel(OversampleStage_new_down(DownBlockLen))
    /\ downIn = <<>> /\ downOut = <<>>

ProcessDown(input) ==
    /\ Len(downIn) + Len(input) <= MaxDownBlocks * 2 * DownBlockLen
    /\ NonZeros(downIn \o input) <= MaxImpulses
    /\ downStage' = process_down(downStage, input)
    /\ downIn' = downIn \o input
    /\ downOut' = downOut \o downStage'.data
    /\ UNCHANGED exceptDown

NextDown == \E input \in [1..2 * DownBlockLen -> DownSamples] : ProcessDown(input)

SpecDown == InitDown /\ [][NextDown]_vars

(***************************************************************************)
(* Claims about process_down, checked under SpecDown.  Sample n (from 1)   *)
(* of a history is sample n - 1 of the source's 0-based stream.            *)
(***************************************************************************)
\* the even-indexed and the odd-indexed samples (0-based) of a stream
EvenPhase(x) == [i \in 1..Len(x) \div 2 |-> x[2 * i - 1]]
OddPhase(x) == [i \in 1..Len(x) \div 2 |-> x[2 * i]]

MAX_OVER_SAMPLE_FACTOR == 4

CascadeUnit == 10 * 100

RoundTo(t, unit) ==
    IF t >= 0 THEN (t + unit \div 2) \div unit ELSE -((-t + unit \div 2) \div unit)

build_filter_coefs_rounded ==
    [i \in 1..Len(build_filter_coefs) |->
        RoundTo(build_filter_coefs[i], KernelUnit \div CascadeUnit)]

down_stages_new(init_buff_size) ==
    [j \in 1..MAX_OVER_SAMPLE_FACTOR |->
        initialize_kernel_from(
            OversampleStage_new_down(init_buff_size * Pow2(MAX_OVER_SAMPLE_FACTOR - j)),
            build_filter_coefs_rounded)]

\* the stages from j to upto run in order, each on the data of the one before
RECURSIVE run_down(_, _, _, _)
run_down_from(stages, j, upto, ran) ==
    run_down([stages EXCEPT ![j] = ran], j + 1, upto, ran.data)

run_down(stages, j, upto, last_stage) ==
    IF j > upto \/ j > Len(stages) THEN [stages |-> stages, last_stage |-> last_stage]
    ELSE run_down_from(stages, j, upto, process_down(stages[j], last_stage))

\* output.iter_mut().zip(last_stage.iter()).for_each(|(out, st)| *out = *st)
copy_zip(output, last_stage) ==
    [i \in 1..Len(output) |-> IF i <= Len(last_stage) THEN last_stage[i] ELSE output[i]]

process_down_result(os, output, r) ==
    [os |-> [os EXCEPT !.down_stages = r.stages], output |-> copy_zip(output, r.last_stage)]

\* a process_down that runs the first `factor as usize` stages of the list
Oversample_process_down_FirstStages(os, input, output) ==
    process_down_result(os, output,
        run_down(os.down_stages, 1, FactorAsUsize(os.factor), input))

\* Oversample::process_down: .iter_mut().rev().take(factor as usize).rev()
\* are the last `factor as usize` stages, in list order
Oversample_process_down(os, input, output) ==
    process_down_result(os, output,
        run_down(os.down_stages,
                 MaxV(Len(os.down_stages) - FactorAsUsize(os.factor), 0) + 1,
                 Len(os.down_stages), input))

(***************************************************************************)
(* The Oversample with its down stages as a state machine: built for       *)
(* blocks of one sample, then process_down and set_oversample_factor calls *)
(* in any order.                                                           *)
(***************************************************************************)
InitOsDown ==
    /\ IdleExceptOversample
    /\ \E initial_factor \in OversampleFactor :
          oversample = [buff_size   |-> 1,
                        factor      |-> initial_factor,
                        stage_0     |-> OversampleStage_new(1),
                        down_stages |-> down_stages_new(1)]
    /\ osOutput = <<>>
    /\ osLast = [op |-> "new", n |-> 0, panicked |-> FALSE]

\* the input is factor times buff_size samples: head, then zeros; the caller
\* passes an output block of buff_size samples holding -1
OsProcessDown(head) ==
    /\ OsCallAllowed
    /\ \E input \in {head \o Zeros(oversample.buff_size
                                     * Pow2(FactorAsUsize(oversample.factor)) - Len(head))} :
       \E r \in {Oversample_process_down(oversample, input,
                                         [i \in 1..oversample.buff_size |-> -1])} :
          /\ oversample' = r.os
          /\ osOutput' = r.output
          /\ osLast' = [op |-> "process_down", n |-> osLast.n + 1, panicked |-> FALSE,
                        input |-> input, before |-> oversample]
    /\ UNCHANGED exceptOversample

NextOsDown ==
    \/ \E head \in [1..2 -> OsSamples] : OsProcessDown(head)
    \/ \E new_factor \in OversampleFactor : OsSetFactor(new_factor)

SpecOsDown == InitOsDown /\ [][NextOsDown]_vars

(***************************************************************************)
(* Claims about Oversample::process_down, checked under SpecOsDown.        *)
(***************************************************************************)
\* the first stage of the list that a call with this factor runs
FirstActive(os) == Len(os.down_stages) - FactorAsUsize(os.factor) + 1

HoldsSample(st) ==
    \/ ~AllZero(st.filter_buff)
    \/ ~AllZero(st.delay_buff.data)

C28_EngineIsForRecordedState ==
    fade_out = None => EngineMatches(proc, state)

\* the engine has been run for the length of a fade with no fade-out in
\* progress, a request for the recorded state having just been made
C28_Witness ==
    /\ fade_out = None
    /\ calls >= FADE_LEN
    /\ last.op = "compare"
    /\ last.arg = state
    /\ proc # from_nl_state(state)

(***************************************************************************)
(* The antiderivative value an engine keeps beside its last input, checked *)
(* under SpecEngine.                                                       *)
(***************************************************************************)
\* the value kept for the order of the engine is the antiderivative at x1
AntiderivativeAtLastInput(adaa) ==
    /\ adaa.proc_alg = "PROCESS_FIRST_ORDER" =>
          adaa.current_proc_state.ad1_x1
              = Call(adaa.current_proc_state.nl_func_ad1, adaa.current_proc_state.x1)
    /\ adaa.proc_alg = "PROCESS_SECOND_ORDER" =>
          adaa.current_proc_state.ad2_x1
              = Call(adaa.current_proc_state.nl_func_ad2, adaa.current_proc_state.x1)

\* C29: in every reachable engine state, the freshly constructed one of each
\* style included, ad1_x1 = F1(x1) for a first-order engine and
\* ad2_x1 = F2(x1) for a second-order engine
C29_AntiderivativeAtLastInput == AntiderivativeAtLastInput(engine)

\* what holds: the relation after every process call of either order
AntiderivativeAfterProcess ==
    engineLast.op = "process" => AntiderivativeAtLastInput(engine)

\* what holds: the fresh engines of every style but first-order SoftClipX2
AntiderivativeWhenFresh ==
    (/\ engineLast.op = "from_nl_state"
     /\ ~(/\ engine.current_proc_state.nl_func = "SOFT_CLIP_X2"
          /\ engine.proc_alg = "PROCESS_FIRST_ORDER"))
        => AntiderivativeAtLastInput(engine)

\* the first result of a fresh first-order SoftClipX2 engine for the input
\* 1.0 lies above 1.0, the bound of the curve
SoftClipFirstResultInRange ==
    (/\ engineLast.op = "process"
     /\ engineLast.before = from_nl_state(State("SoftClipX2", "FirstOrder"))
     /\ engineLast.val = Scale)
        => engineLast.result <= Scale

(***************************************************************************)
(* circular_buffer/src/circular_buffer.rs: CircularConvBuffer, the block   *)
(* convolver whose block is as long as its kernel.  buff[i] of the source  *)
(* is buff[i+1]; the kernel passed has k_size taps, as in the test doc_t,  *)
(* and samples and taps are small integers.                                *)
(***************************************************************************)
CircularConvBuffer_new(new_k_size) ==
    [buff |-> Zeros(new_k_size * 2), block_size |-> new_k_size,
     k_size |-> new_k_size, k_size_i32 |-> new_k_size]

\* the body of the loop of convolve for block i (from 0)
convolve_block(c, input, kernel, i) ==
    LET \* self.buff[self.k_size..].iter_mut().zip(input.iter().skip(..).take(..))
        copied == [n \in 1..Len(c.buff) |->
                     IF /\ n > c.k_size
                        /\ n - c.k_size <= c.block_size
                        /\ i * c.block_size + n - c.k_size <= Len(input)
                     THEN input[i * c.block_size + n - c.k_size]
                     ELSE c.buff[n]]
        \* input[(i * block_size) + j] = dot_prod(&self.buff[j + 1..], kernel, ..)
        output == [n \in 1..Len(input) |->
                     IF n > i * c.block_size /\ n <= (i + 1) * c.block_size
                     THEN dot_prod(SubSeq(copied, n - i * c.block_size + 1, Len(copied)),
                                   kernel)
                     ELSE input[n]]
        \* buff[j] = buff[j + block_size] reads ahead of every slot written so far
        shifted == [n \in 1..Len(copied) |->
                      IF n <= c.k_size THEN copied[n + c.block_size] ELSE copied[n]]
    IN  [conv |-> [c EXCEPT !.buff = shifted], input |-> output]

\* the blocks from i (from 0) up to blocks - 1, in order
RECURSIVE convolve_blocks(_, _, _, _)
convolve_blocks(r, kernel, i, blocks) ==
    IF i >= blocks THEN r
    ELSE convolve_blocks(convolve_block(r.conv, r.input, kernel, i), kernel, i + 1, blocks)

\* a convolve that takes the samples after the last whole block as one more block
CircularConvBuffer_convolve_PartialBlock(c, input, kernel) ==
    convolve_blocks([conv |-> c, input |-> input], kernel, 0,
                    (Len(input) + c.block_size - 1) \div c.block_size)

\* CircularConvBuffer::convolve: for i in 0..(input.len() / self.block_size)
CircularConvBuffer_convolve(c, input, kernel) ==
    convolve_blocks([conv |-> c, input |-> input], kernel, 0,
                    Len(input) \div c.block_size)

MaxCircK == 3
MaxCircIn == 5

CircSamples == {0, 1}

\* the kernel of doc_t: 1, 2, .., k_size
CircKernel(k_size) == [m \in 1..k_size |-> m]

\* the last n samples of seq
LastSamples(seq, n) == SubSeq(seq, Len(seq) - n + 1, Len(seq))

\* the samples of input that lie in whole blocks
WholeBlocks(input, block_size) == SubSeq(input, 1, (Len(input) \div block_size) * block_size)

InitCirc ==
    /\ IdleExceptCirc
    /\ \E new_k_size \in 1..MaxCircK :
          /\ convBuf = CircularConvBuffer_new(new_k_size)
          /\ circWhole = Zeros(new_k_size)
    /\ circLast = None

CircConvolve(input) ==
    /\ \E r \in {CircularConvBuffer_convolve(convBuf, input, CircKernel(convBuf.k_size))} :
          /\ convBuf' = r.conv
          /\ circLast' = Some([input |-> input, output |-> r.input, whole |-> circWhole])
    /\ circWhole' = LastSamples(circWhole \o WholeBlocks(input, convBuf.block_size), convBuf.k_size)
    /\ UNCHANGED exceptCirc

NextCirc ==
    \E len \in 0..MaxCircIn : \E input \in [1..len -> CircSamples] : CircConvolve(input)

SpecCirc == InitCirc /\ [][NextCirc]_vars

(***************************************************************************)
(* Claims about CircularConvBuffer::convolve, checked under SpecCirc.      *)
(***************************************************************************)
\* sample n of a whole block of stream, which begins with k_size samples of
\* history: the kernel over that sample and the k_size - 1 before it
Filtered(stream, kernel, n) == dot_prod(SubSeq(stream, n + 1, n + Len(kernel)), kernel)

\* C30: convolve processes whole blocks of block_size samples only: the
\* len mod block_size samples after them are left as passed and do not enter
\* the history, and each whole block is filtered with the history of the
\* whole blocks before it, of this call and of the calls before
C30_WholeBlocksOnly ==
    circLast # None =>
        LET input  == circLast[1].input
            output == circLast[1].output
            kernel == CircKernel(convBuf.k_size)
            whole  == WholeBlocks(input, convBuf.block_size)
            stream == circLast[1].whole \o whole
        IN  /\ Len(output) = Len(input)
            /\ \A n \in Len(whole) + 1..Len(input) : output[n] = input[n]
            /\ \A n \in 1..Len(whole) : output[n] = Filtered(stream, kernel, n)
            /\ SubSeq(convBuf.buff, 1, convBuf.k_size) = LastSamples(stream, convBuf.k_size)

\* a call with a whole block and a non-zero sample after it, on a buffer whose
\* history of whole blocks is non-zero and whose call before left a non-zero
\* sample behind too: the block comes out changed
C30_Witness ==
    /\ circLast # None
    /\ convBuf.block_size > 1
    /\ Len(circLast[1].input) > convBuf.block_size
    /\ Len(circLast[1].input) % convBuf.block_size # 0
    /\ circLast[1].input[Len(circLast[1].input)] = 1
    /\ ~AllZero(circLast[1].whole)
    /\ circLast[1].whole[convBuf.k_size] = 0
    /\ SubSeq(circLast[1].output, 1, convBuf.block_size)
           # SubSeq(circLast[1].input, 1, convBuf.block_size)
====
